---- MODULE Spec2Model ----
(***************************************************************************)
(* A model of the two components of the convexus front-end:                *)
(*   - src/app/hooks/useSponsoredTransactions.tsx: the hook's status, its  *)
(*     reset, checkSponsorship and sendSponsoredTransaction callbacks, and *)
(*     the ERC-20 call-data builder buildTransferCallData;                 *)
(*   - src/lib/pool-data.ts: fetchPoolData and the fetchers it awaits.     *)
(* Every asynchronous function is cut at its awaits: one action per        *)
(* synchronous segment.  External services (the wallet SDK's               *)
(* sendTransaction, the sponsorship oracle, the HTTP APIs, the chain RPC)  *)
(* are the environment: their outcomes are chosen with \E.                 *)
(***************************************************************************)
EXTENDS Integers, Sequences, FiniteSets, TLC

(***************************************************************************)
(* JavaScript strings are TLA+ strings; characters are strings of length 1.*)
(***************************************************************************)

\* s[i] as a one-character string, "" outside the string.
CharAt(s, i) == IF i >= 1 /\ i <= Len(s) THEN SubSeq(s, i, i) ELSE ""

\* String.prototype.slice(start) for a non-negative start (0-based in JS).
slice(s, start) == IF start >= Len(s) THEN "" ELSE SubSeq(s, start + 1, Len(s))

\* A string of n copies of the one-character string c.
RECURSIVE repeat(_, _)
repeat(c, n) ==
    IF n <= 0 THEN ""
    ELSE LET half == repeat(c, n \div 2)
         IN  IF n % 2 = 0 THEN half \o half ELSE half \o half \o c

\* String.prototype.padStart(targetLength, c) with a one-character fill:
\* a string already that long is returned as it is, never truncated.
padStart(s, targetLength, c) ==
    IF Len(s) >= targetLength THEN s ELSE repeat(c, targetLength - Len(s)) \o s

\* String.prototype.includes(needle): some window of s equals needle.
includes(s, needle) ==
    \E i \in 1..(Len(s) - Len(needle) + 1) : SubSeq(s, i, i + Len(needle) - 1) = needle

DecChars == "0123456789"
HexChars == "0123456789abcdef"

DigitVal(c) == (CHOOSE d \in 1..10 : CharAt(DecChars, d) = c) - 1

(***************************************************************************)
(* Arbitrary-precision naturals (BigInt, and the exact values of doubles): *)
(* sequences of base-4096 digits, least significant first, without high    *)
(* zero digits; the empty sequence is 0.  One digit is three hex digits.   *)
(* Carries are computed by look-ahead rather than by rippling, which keeps *)
(* the evaluation of an operator shallow.  Where a computed value is used  *)
(* more than once it is passed to an operator as an argument, so that each *)
(* operator is applied in one place only.                                  *)
(***************************************************************************)
Base == 16 * 16 * 16
DigitBits == 3 * 4

\* 2^n for 0 <= n < DigitBits.
Pow2(n) == <<1, 2, 4, 8, 16, 32, 64, 128, 256, 512, 1024, 2048>>[n + 1]

\* The digit of x at place i (0 above its length).
Digit(x, i) == IF i >= 1 /\ i <= Len(x) THEN x[i] ELSE 0

\* x without its high zero digits.
Normalize(x) ==
    IF x = <<>> THEN <<>>
    ELSE LET nz == {i \in 1..Len(x) : x[i] # 0}
         IN  IF nz = {} THEN <<>>
             ELSE SubSeq(x, 1, CHOOSE i \in nz : \A j \in nz : j <= i)

\* x + y: place i receives a carry when a lower place j overflows and every
\* place between them is full.
BigAdd(x, y) ==
    IF x = <<>> THEN y
    ELSE IF y = <<>> THEN x
    ELSE LET n  == (IF Len(x) >= Len(y) THEN Len(x) ELSE Len(y)) + 1
             sm == [i \in 1..n |-> Digit(x, i) + Digit(y, i)]
             carry(i) == IF \E j \in 1..(i - 1) :
                                sm[j] >= Base /\ \A k \in (j + 1)..(i - 1) : sm[k] = Base - 1
                         THEN 1 ELSE 0
         IN  Normalize([i \in 1..n |-> (sm[i] + carry(i)) % Base])

\* x * Base^n.
ShiftDigits(x, n) == IF x = <<>> THEN <<>> ELSE [i \in 1..n |-> 0] \o x

\* The sum of f[lo..hi], halving the range.
RECURSIVE SumRange(_, _, _)
SumRange(f, lo, hi) ==
    IF lo > hi THEN 0
    ELSE IF lo = hi THEN f[lo]
    ELSE LET mid == (lo + hi) \div 2
         IN  SumRange(f, lo, mid) + SumRange(f, mid + 1, hi)

\* x * y, by columns: column k collects the digit products x[i] * y[j] with
\* i + j = k + 1, low parts in place k and high parts in place k + 1.  The
\* shorter factor is the one whose digits are summed over.
RECURSIVE BigMul(_, _)
BigMul(x, y) ==
    IF x = <<>> \/ y = <<>> THEN <<>>
    ELSE IF x = <<1>> THEN y
    ELSE IF y = <<1>> THEN x
    ELSE IF Len(x) > Len(y) THEN BigMul(y, x)
    ELSE LET n   == Len(x) + Len(y)
             lo(k)  == SumRange([i \in 1..Len(x) |-> (x[i] * Digit(y, k + 1 - i)) % Base],
                                1, Len(x))
             hi(k)  == SumRange([i \in 1..Len(x) |-> (x[i] * Digit(y, k + 1 - i)) \div Base],
                                1, Len(x))
             col == [k \in 1..n |-> lo(k) + (IF k = 1 THEN 0 ELSE hi(k - 1))]
         IN  BigAdd(Normalize([k \in 1..n |-> col[k] % Base]),
                    Normalize([k \in 1..(n + 1) |->
                                   IF k = 1 THEN 0 ELSE col[k - 1] \div Base]))

\* Long division of the digits x[lo..hi] by d, entered with remainder rem
\* from the digits above: the high half first, its remainder carried into
\* the low half.
RECURSIVE DivRange(_, _, _, _, _)
DivRange(x, d, lo, hi, rem) ==
    IF lo > hi THEN [q |-> <<>>, r |-> rem]
    ELSE IF lo = hi
    THEN LET cur == rem * Base + x[lo]
         IN  [q |-> <<cur \div d>>, r |-> cur % d]
    ELSE LET mid  == (lo + hi) \div 2
             high == DivRange(x, d, mid + 1, hi, rem)
             low  == DivRange(x, d, lo, mid, high.r)
         IN  [q |-> low.q \o high.q, r |-> low.r]

\* Quotient and remainder of x by a small d (1 <= d <= 2^19).
DivSmall(x, d) ==
    IF x = <<>> THEN [q |-> <<>>, r |-> 0]
    ELSE LET res == DivRange(x, d, 1, Len(x), 0)
         IN  [q |-> Normalize(res.q), r |-> res.r]

\* The number of bits of a digit.
SmallBitLen(n) ==
    IF n = 0 THEN 0 ELSE CHOOSE b \in 1..DigitBits : n < Pow2(b - 1) * 2 /\ n >= Pow2(b - 1)

BitLen(x) == IF x = <<>> THEN 0 ELSE DigitBits * (Len(x) - 1) + SmallBitLen(x[Len(x)])

\* x * 2^n.
ShiftLeft(x, n) ==
    IF x = <<>> THEN <<>>
    ELSE LET p == Pow2(n % DigitBits)
         IN  ShiftDigits(Normalize([i \in 1..(Len(x) + 1) |->
                             ((Digit(x, i) * p) % Base) + ((Digit(x, i - 1) * p) \div Base)]),
                         n \div DigitBits)

\* floor(x / 2^n), and whether a nonzero bit was shifted out.
ShiftRight(x, n) ==
    IF x = <<>> THEN [q |-> <<>>, sticky |-> FALSE]
    ELSE LET nd   == n \div DigitBits
             p    == Pow2(n % DigitBits)
             low  == \E i \in 1..nd : Digit(x, i) # 0
             high == IF nd >= Len(x) THEN <<>> ELSE SubSeq(x, nd + 1, Len(x))
         IN  [q |-> Normalize([i \in 1..Len(high) |->
                         (high[i] \div p) + (Digit(high, i + 1) % p) * (Base \div p)]),
              sticky |-> low \/ Digit(high, 1) % p # 0]

\* The number of zero bits below the lowest set bit of x # 0.
TrailingZeros(x) ==
    LET i == CHOOSE j \in 1..Len(x) : x[j] # 0 /\ \A k \in 1..(j - 1) : x[k] = 0
    IN  DigitBits * (i - 1)
            + (CHOOSE b \in 0..(DigitBits - 1) : x[i] % Pow2(b) = 0 /\ (x[i] \div Pow2(b)) % 2 = 1)

\* x < y.
BigLess(x, y) ==
    \/ Len(x) < Len(y)
    \/ /\ Len(x) = Len(y)
       /\ \E i \in 1..Len(x) : x[i] < y[i] /\ \A j \in (i + 1)..Len(x) : x[j] = y[j]

\* x - y for x >= y: place i lends when a lower place j falls short and no
\* place between them has anything to spare.
BigSub(x, y) ==
    IF y = <<>> THEN x
    ELSE LET df == [i \in 1..Len(x) |-> x[i] - Digit(y, i)]
             borrow(i) == IF \E j \in 1..(i - 1) :
                                 df[j] < 0 /\ \A k \in (j + 1)..(i - 1) : df[k] <= 0
                          THEN 1 ELSE 0
         IN  Normalize([i \in 1..Len(x) |-> (df[i] - borrow(i) + Base) % Base])

\* y * d for a digit d.
MulDigit(y, d) == IF d = 0 THEN <<>> ELSE BigMul(y, <<d>>)

\* The quotient digit floor(cur / y) for cur < Base * y, where the high
\* digit of y is at least Base / 2: the quotient of the two high digits of
\* cur by the high digit of y is the digit or exceeds it by at most two.
QuotientDigit(cur, y, est) ==
    CHOOSE d \in (est - 2)..est :
        /\ d >= 0 /\ d < Base
        /\ ~BigLess(cur, MulDigit(y, d))
        /\ BigLess(cur, MulDigit(y, d + 1))

\* One step of long division: prev holds the quotient and the remainder
\* of the digits above, digit is the next digit of the dividend.
DivideStep(prev, digit, y) ==
    IF prev.r = <<>> /\ digit = 0 THEN [q |-> ShiftDigits(prev.q, 1), r |-> <<>>]
    ELSE LET cur == Normalize(<<digit>> \o prev.r)
             d   == QuotientDigit(cur, y, (Digit(cur, Len(y) + 1) * Base + Digit(cur, Len(y)))
                                              \div y[Len(y)])
         IN  [q |-> Normalize(<<d>> \o prev.q), r |-> BigSub(cur, MulDigit(y, d))]

\* Long division of the digits x[lo..hi] by y, entered with the quotient
\* and remainder prev of the digits above: the high half first, and the low
\* half from its result once that is computed.
RECURSIVE DivideRange(_, _, _, _, _)
DivideRange(x, y, lo, hi, prev) ==
    IF lo > hi THEN prev
    ELSE IF lo = hi THEN DivideStep(prev, x[lo], y)
    ELSE CHOOSE low \in {DivideRange(x, y, lo, (lo + hi) \div 2, high) :
                             high \in {DivideRange(x, y, (lo + hi) \div 2 + 1, hi, prev)}} :
             TRUE

\* The quotient of x by y # 0, and a remainder that is zero exactly when
\* the division is exact: both are first shifted left, which brings the
\* high digit of y to Base / 2 or more.
BigDivMod(x, y) ==
    CHOOSE d \in {DivideRange(xs, ys, 1, Len(xs), [q |-> <<>>, r |-> <<>>]) :
                     xs \in {ShiftLeft(x, DigitBits - SmallBitLen(y[Len(y)]))},
                     ys \in {ShiftLeft(y, DigitBits - SmallBitLen(y[Len(y)]))}} :
        TRUE

\* 10^(2^i) for i = 0..8, in base-4096 digits.
TenPowers ==
    <<<<10>>,
      <<100>>,
      <<1808, 2>>,
      <<256, 3934, 5>>,
      <<0, 3088, 623, 2159, 35>>,
      <<0, 0, 256, 3832, 1452, 1464, 3393, 726, 1262>>,
      <<0, 0, 0, 0, 0, 16, 2591, 3062, 3428, 910, 3438, 2430, 2727, 3917, 4089, 3731, 3843,
       388>>,
      <<0, 0, 0, 0, 0, 0, 0, 0, 0, 0, 256, 992, 3733, 146, 3993, 61, 2301, 339, 3855, 3650,
       884, 3778, 4085, 3388, 3080, 77, 2756, 2829, 3277, 411, 895, 2659, 1539, 498, 3817,
       36>>,
      <<0, 0, 0, 0, 0, 0, 0, 0, 0, 0, 0, 0, 0, 0, 0, 0, 0, 0, 0, 0, 0, 16, 3708, 2434, 1883,
       3384, 702, 2551, 2265, 2173, 1327, 289, 198, 3557, 107, 1767, 3914, 252, 1496, 3417,
       366, 2855, 38, 1643, 3526, 586, 1334, 465, 858, 1069, 3644, 1344, 1023, 3078, 1395,
       3269, 3863, 3998, 613, 655, 1468, 3957, 3271, 2061, 3548, 1774, 3828, 3836, 4060,
       3957, 1363>>>>

\* The product of the powers 10^(2^(i-1)), i = from..9, that the binary
\* digits of n select.
RECURSIVE PowProduct(_, _)
PowProduct(n, from) ==
    IF from > 9 \/ n \div Pow2(from - 1) = 0 THEN <<1>>
    ELSE BigMul(IF (n \div Pow2(from - 1)) % 2 = 1 THEN TenPowers[from] ELSE <<1>>,
                PowProduct(n, from + 1))

\* 10^n: below 512 the product of the powers the binary digits of n select,
\* from 512 on a further factor 10^512 for every 512 in n.
RECURSIVE BigPow10(_)
BigPow10(n) ==
    IF n < 512 THEN PowProduct(n, 1)
    ELSE BigMul(BigMul(TenPowers[9], TenPowers[9]), BigPow10(n - 512))

\* The natural number written by a string of decimal digits ("" is 0):
\* the value of the left half times 10^(length of the right half), plus
\* the value of the right half.
RECURSIVE ParseNat(_)
ParseNat(s) ==
    IF Len(s) = 0 THEN <<>>
    ELSE IF Len(s) = 1 THEN Normalize(<<DigitVal(s)>>)
    ELSE LET mid == Len(s) \div 2
             hi  == ParseNat(SubSeq(s, 1, mid))
             lo  == ParseNat(SubSeq(s, mid + 1, Len(s)))
         IN  BigAdd(BigMul(hi, BigPow10(Len(s) - mid)), lo)

\* A base-4096 digit as three hex characters.
Hex3(n) ==
    CharAt(HexChars, (n \div 256) + 1) \o CharAt(HexChars, ((n \div 16) % 16) + 1)
        \o CharAt(HexChars, (n % 16) + 1)

\* s without its leading "0" characters.
StripZeros(s) ==
    LET nz == {i \in 1..Len(s) : CharAt(s, i) # "0"}
    IN  IF nz = {} THEN "" ELSE SubSeq(s, CHOOSE i \in nz : \A j \in nz : i <= j, Len(s))

\* The hex digits of x[lo..hi], high digit first, three per digit.
RECURSIVE HexRange(_, _, _)
HexRange(x, lo, hi) ==
    IF lo > hi THEN ""
    ELSE IF lo = hi THEN Hex3(x[lo])
    ELSE LET mid == (lo + hi) \div 2
         IN  HexRange(x, mid + 1, hi) \o HexRange(x, lo, mid)

\* BigInt.prototype.toString(16) of a natural.
BigToHex(x) == IF x = <<>> THEN "0" ELSE StripZeros(HexRange(x, 1, Len(x)))

(***************************************************************************)
(* JavaScript Numbers (IEEE-754 doubles).  A finite double is the exact    *)
(* value (-1)^neg * m * 2^e with m a natural of at most 53 bits and        *)
(* e >= -1074 (the subnormals are the doubles whose m has fewer than 53    *)
(* bits at e = -1074); NaN is nan = TRUE.  The finite doubles lie below    *)
(* 2^1024 in magnitude, and the record of 2^1024 itself stands for         *)
(* Infinity, as the exponent above the finite ones does in the double's    *)
(* encoding.  Results are rounded to nearest, ties to even, as the engine  *)
(* does: into the subnormals and to zero at the low end, to Infinity at    *)
(* the high end.                                                           *)
(***************************************************************************)
NaN == [nan |-> TRUE, neg |-> FALSE, m |-> <<>>, e |-> 0]

\* Infinity and -Infinity.
Infinity(neg) == [nan |-> FALSE, neg |-> neg, m |-> <<1>>, e |-> 1024]

\* The double (-1)^neg * m * 2^e for m of at most 53 bits and e >= -1074,
\* in the one form the model keeps: m odd, or m = 0 and e = 0.  A value of
\* 2^1024 or more overflows to Infinity.
Double(neg, m, e) ==
    IF m = <<>> THEN [nan |-> FALSE, neg |-> neg, m |-> <<>>, e |-> 0]
    ELSE IF BitLen(m) + e > 1024 THEN Infinity(neg)
    ELSE [nan |-> FALSE, neg |-> neg, m |-> ShiftRight(m, TrailingZeros(m)).q,
          e |-> e + TrailingZeros(m)]

\* Rounding to nearest, ties to even: s1 holds the bits of the value that
\* the result keeps and below them the guard bit, and whether lower bits
\* were set.
RoundShifted(neg, s1, sticky, e) ==
    LET q  == ShiftRight(s1.q, 1).q
        up == Digit(s1.q, 1) % 2 = 1
                  /\ (s1.sticky \/ sticky \/ Digit(s1.q, 1) % 4 = 3)
    IN  Double(neg, IF up THEN BigAdd(q, <<1>>) ELSE q, e)

\* The double nearest to x * 2^e, where sticky says that the exact value
\* lies strictly above x * 2^e by less than one unit of x (used only when x
\* has more than 54 bits).  The result keeps the 53 high bits of x, or
\* fewer when its last place would lie below 2^-1074.
RoundToDouble(neg, x, sticky, e) ==
    LET drop == IF BitLen(x) - 53 >= (0 - 1074) - e
                THEN BitLen(x) - 53 ELSE (0 - 1074) - e
    IN  IF drop <= 0 THEN Double(neg, x, e)
        ELSE RoundShifted(neg, ShiftRight(x, drop - 1), sticky, e + drop)

\* M * 10^exp10 as an integer, or a quotient with its remainder, times a
\* power of two.  Before a division by 10^k M is shifted left by s bits,
\* far enough for a quotient of 56 bits or more (10^k is below 2^(3322 k / 1000 + 1)), and
\* no further than the 1080 bits that reach below the last place of the
\* smallest double.
ScaleDecimal(M, exp10) ==
    IF exp10 >= 0
    THEN [d |-> [q |-> BigMul(M, BigPow10(exp10)), r |-> <<>>], e |-> 0]
    ELSE LET s == IF 58 + (3322 * (0 - exp10)) \div 1000 - BitLen(M) > 1080 THEN 1080
                  ELSE IF 58 + (3322 * (0 - exp10)) \div 1000 > BitLen(M)
                  THEN 58 + (3322 * (0 - exp10)) \div 1000 - BitLen(M)
                  ELSE 0
         IN  [d |-> BigDivMod(ShiftLeft(M, s), BigPow10(0 - exp10)), e |-> 0 - s]

\* The double nearest to the quotient scaled.d.q * 2^scaled.e, where a
\* remainder scaled.d.r # 0 says that the exact value lies above it (the
\* quotient then has at least 55 bits).
RoundScaled(neg, scaled) == RoundToDouble(neg, scaled.d.q, scaled.d.r # <<>>, scaled.e)

\* s without its trailing "0" characters: replace(/(0+)$/, '').
StripTrailingZeros(s) ==
    LET nz == {i \in 1..Len(s) : CharAt(s, i) # "0"}
    IN  IF nz = {} THEN "" ELSE SubSeq(s, 1, CHOOSE i \in nz : \A j \in nz : j <= i)

\* The double a decimal literal writes: its digits (integer and fraction
\* digits together) write the natural M and its value is M * 10^exp10.
\* With sig significant digits in M the value lies in
\* [10^(sig - 1 + exp10), 10^(sig + exp10)), so it is beyond every finite
\* double from 10^309 on and rounds to zero below 10^-324.
DecimalValue(neg, digits, exp10) ==
    IF StripZeros(digits) = "" THEN Double(neg, <<>>, 0)
    ELSE IF Len(StripZeros(digits)) + exp10 > 309 THEN Infinity(neg)
    ELSE IF Len(StripZeros(digits)) + exp10 < 0 - 323 THEN Double(neg, <<>>, 0)
    ELSE RoundScaled(neg, ScaleDecimal(ParseNat(digits), exp10))

\* The index of the last character of the run of decimal digits of s that
\* starts at i (i - 1 when s[i] is no digit).
DigitsEnd(s, i) ==
    LET stop == {j \in i..Len(s) : \A d \in 1..10 : CharAt(DecChars, d) # CharAt(s, j)}
    IN  IF stop = {} THEN Len(s)
        ELSE (CHOOSE j \in stop : \A k \in stop : j <= k) - 1

\* parseFloat from the exponent on: the mantissa's digits are intStr and
\* fracStr and it ends at index mantEnd.  The exponent is read as written
\* up to 1073741823 (the engine's INT_MAX / 2), which stands for every
\* exponent above it; low is the value of its last nine digits.  The
\* zeros that end the mantissa's digits are taken into the exponent.
ParseExponent(s, intStr, fracStr, mantEnd) ==
    LET hasE    == CharAt(s, mantEnd + 1) \in {"e", "E"}
        eSigned == CharAt(s, mantEnd + 2) \in {"-", "+"}
        eNeg    == CharAt(s, mantEnd + 2) = "-"
        e1      == IF eSigned THEN mantEnd + 3 ELSE mantEnd + 2
        expStr  == IF hasE /\ DigitsEnd(s, e1) >= e1
                   THEN StripZeros(SubSeq(s, e1, DigitsEnd(s, e1))) ELSE ""
        last9   == IF Len(expStr) = 10 THEN SubSeq(expStr, 2, 10) ELSE expStr
        low     == IF Len(expStr) > 10 THEN 0
                   ELSE SumRange([i \in 1..Len(last9) |->
                                     DigitVal(CharAt(last9, i))
                                         * <<1, 10, 100, 1000, 10000, 100000, 1000000,
                                             10000000, 100000000>>[Len(last9) - i + 1]],
                                 1, Len(last9))
        expVal  == IF Len(expStr) < 10 THEN low
                   ELSE IF Len(expStr) = 10 /\ CharAt(expStr, 1) = "1" /\ low <= 73741823
                   THEN 1000000000 + low
                   ELSE 1073741823
        digits  == StripTrailingZeros(intStr \o fracStr)
    IN  IF intStr = "" /\ fracStr = "" THEN NaN
        ELSE DecimalValue(CharAt(s, 1) = "-", digits,
                          (IF eNeg THEN 0 - expVal ELSE expVal)
                              + (Len(intStr) - Len(digits)))

\* parseFloat from the fraction on: the integer digits are s[i1..intEnd].
ParseFraction(s, i1, intEnd) ==
    LET hasDot  == CharAt(s, intEnd + 1) = "."
        fracEnd == IF hasDot THEN DigitsEnd(s, intEnd + 2) ELSE intEnd
        hasFrac == hasDot /\ fracEnd >= intEnd + 2
    IN  ParseExponent(s,
                      IF intEnd >= i1 THEN SubSeq(s, i1, intEnd) ELSE "",
                      IF hasFrac THEN SubSeq(s, intEnd + 2, fracEnd) ELSE "",
                      IF hasFrac THEN fracEnd ELSE IF hasDot THEN intEnd + 1 ELSE intEnd)

\* parseFloat from the integer digits on, which start at index i1.
ParseInteger(s, i1) == ParseFraction(s, i1, DigitsEnd(s, i1))

\* parseFloat(s): s without its leading white space is read for its
\* longest prefix that is a decimal literal, [sign] Infinity or
\* [sign] digits [. digits] [e [sign] digits]; NaN when there is none.
\* (White space is the space, tab, line feed, carriage return and form
\* feed; the other white space characters of the language, the vertical
\* tab and those beyond ASCII, cannot be written in a string here.)
parseFloat(s) ==
    LET kept    == {i \in 1..Len(s) : CharAt(s, i) \notin {" ", "\t", "\n", "\r", "\f"}}
        trimmed == IF kept = {} THEN ""
                   ELSE SubSeq(s, CHOOSE i \in kept : \A j \in kept : i <= j, Len(s))
        i1      == IF CharAt(trimmed, 1) \in {"-", "+"} THEN 2 ELSE 1
    IN  IF Len(trimmed) >= i1 + 7 /\ SubSeq(trimmed, i1, i1 + 7) = "Infinity"
        THEN Infinity(CharAt(trimmed, 1) = "-")
        ELSE ParseInteger(trimmed, i1)

\* a * b on doubles: the exact product, rounded once; Infinity times zero
\* is NaN, Infinity times anything else is infinite.
DoubleMul(a, b) ==
    IF a.nan \/ b.nan THEN NaN
    ELSE IF a = Infinity(a.neg) \/ b = Infinity(b.neg)
    THEN IF a.m = <<>> \/ b.m = <<>> THEN NaN ELSE Infinity(a.neg # b.neg)
    ELSE RoundToDouble(a.neg # b.neg, BigMul(a.m, b.m), FALSE, a.e + b.e)

\* The sum of two doubles given as integers times the same power of two.
AddAligned(aneg, A, bneg, B, e) ==
    IF aneg # bneg /\ A = B THEN Double(FALSE, <<>>, 0)
    ELSE RoundToDouble(IF aneg = bneg \/ ~BigLess(A, B) THEN aneg ELSE bneg,
                       IF aneg = bneg THEN BigAdd(A, B)
                       ELSE IF BigLess(A, B) THEN BigSub(B, A) ELSE BigSub(A, B),
                       FALSE, e)

\* a + b on doubles: the exact sum, rounded once; the sum of the two
\* infinities is NaN, any other sum with Infinity is that Infinity.
DoubleAdd(a, b) ==
    IF a.nan \/ b.nan THEN NaN
    ELSE IF a = Infinity(a.neg)
    THEN IF b = Infinity(~a.neg) THEN NaN ELSE a
    ELSE IF b = Infinity(b.neg) THEN b
    ELSE AddAligned(a.neg, ShiftLeft(a.m, IF a.e >= b.e THEN a.e - b.e ELSE 0),
                    b.neg, ShiftLeft(b.m, IF b.e > a.e THEN b.e - a.e ELSE 0),
                    IF a.e >= b.e THEN b.e ELSE a.e)

\* a / b on doubles: the exact quotient, rounded once (the dividend is
\* first shifted left for a quotient of at least 55 bits); 0 / 0 and
\* Infinity / Infinity are NaN, a division by zero or of Infinity is
\* infinite, a division by Infinity or of zero is zero.
DoubleDiv(a, b) ==
    IF a.nan \/ b.nan THEN NaN
    ELSE IF (a.m = <<>> /\ b.m = <<>>) \/ (a = Infinity(a.neg) /\ b = Infinity(b.neg))
    THEN NaN
    ELSE IF b.m = <<>> \/ a = Infinity(a.neg) THEN Infinity(a.neg # b.neg)
    ELSE IF a.m = <<>> \/ b = Infinity(b.neg) THEN Double(a.neg # b.neg, <<>>, 0)
    ELSE LET s == IF 56 + BitLen(b.m) > BitLen(a.m)
                  THEN 56 + BitLen(b.m) - BitLen(a.m) ELSE 0
         IN  RoundScaled(a.neg # b.neg,
                         [d |-> BigDivMod(ShiftLeft(a.m, s), b.m), e |-> a.e - b.e - s])

\* BigInt.prototype.toString(16).
BigIntToString16(b) == (IF b.neg THEN "-" ELSE "") \o BigToHex(b.mag)

\* The Number 0, and the Number of a natural below Base.
Zero == [nan |-> FALSE, neg |-> FALSE, m |-> <<>>, e |-> 0]
FromNat(n) == Double(FALSE, IF n = 0 THEN <<>> ELSE <<n>>, 0)

\* ToBoolean of a Number: false for 0, -0 and NaN.
IsTruthy(x) == ~x.nan /\ x.m # <<>>

\* Three decimal digits of a number below 1000.
Dec3(n) ==
    CharAt(DecChars, n \div 100 + 1) \o CharAt(DecChars, ((n \div 10) % 10) + 1)
        \o CharAt(DecChars, (n % 10) + 1)

\* The decimal digits of x, three at a time, with leading zeros.
RECURSIVE DecimalDigits(_)
DecimalDigits(d) ==
    IF d.q = <<>> THEN Dec3(d.r) ELSE DecimalDigits(DivSmall(d.q, 1000)) \o Dec3(d.r)

\* BigInt.prototype.toString() of a natural.
BigToDecimal(x) ==
    IF x = <<>> THEN "0" ELSE StripZeros(DecimalDigits(DivSmall(x, 1000)))

\* The shortest decimal digits that read back as a positive finite double
\* x, as Number::toString picks them: the fewest digits k for which some
\* k-digit decimal rounds to x and, of those, the decimal nearest to x (the
\* even one of two equally near).  A decimal rounds to x when it lies
\* within half the distance to the next double on its side of x, that
\* bound included when the last bit of x is 0 (ties go to even).
\* Everything is counted in units of 10^-F, which makes x the natural V and
\* the two bounds the naturals Hlow and Hup.

\* One length k: the k-digit decimals nearest to x are lo, the k high
\* digits of V, and lo + 1; unit is the value of their last place, sp the
\* quotient lo and the remainder of the 17 high digits of V by 10^(17 - k),
\* and exactD tells that V has only zeros below its 17 high digits.  The
\* result is the one that rounds to x (the nearer of two) with the decimal
\* exponent e10 of its last place, or no digits when neither does.
Candidate(V, unit, sp, exactD, Hlow, Hup, incl, e10) ==
    LET below == BigSub(V, BigMul(sp.q, unit))
        above == BigSub(BigMul(BigAdd(sp.q, <<1>>), unit), V)
        down  == BigLess(below, Hlow) \/ (incl /\ below = Hlow)
        up    == ~(sp.r = <<>> /\ exactD)
                     /\ (BigLess(above, Hup) \/ (incl /\ above = Hup))
    IN  IF down /\ (~up \/ BigLess(below, above)
                        \/ (~BigLess(above, below) /\ sp.q[1] % 2 = 0))
        THEN [c |-> sp.q, e10 |-> e10]
        ELSE IF up THEN [c |-> BigAdd(sp.q, <<1>>), e10 |-> e10]
        ELSE [c |-> <<>>, e10 |-> e10]

\* V has L >= 17 decimal digits, P is 10^(L - 17) and n is L - F.  A length
\* that has a decimal rounding to x is followed by lengths that have one,
\* up to 17, which always has: the shortest is 18 less their number.
ShortestOfLength(V, P, n, Hlow, Hup, incl) ==
    LET D       == BigDivMod(V, P)
        cand(k) == Candidate(V, BigMul(BigPow10(17 - k), P),
                             BigDivMod(D.q, BigPow10(17 - k)), D.r = <<>>,
                             Hlow, Hup, incl, n - k)
    IN  cand(18 - Cardinality({k \in 1..17 : cand(k).c # <<>>}))

\* The number L of decimal digits of V, from the number of its bits.
ShortestFrom(V, F, Hlow, Hup, incl) ==
    LET est == ((BitLen(V) - 1) * 30103) \div 100000
        L   == CHOOSE l \in est..(est + 2) :
                   BigLess(V, BigPow10(l)) /\ ~BigLess(V, BigPow10(l - 1))
    IN  ShortestOfLength(V, BigPow10(L - 17), L - F, Hlow, Hup, incl)

\* The unit of the last place of x is 2^eu (53 bits, or fewer in the
\* subnormals); the double below x is half as far as the one above when x
\* is a power of two above the subnormals.  With F = 2 - eu (0 when the
\* bounds are integers anyway) x and both bounds are naturals.
ShortestDigits(x) ==
    LET eu   == IF x.e - (53 - BitLen(x.m)) >= 0 - 1074
                THEN x.e - (53 - BitLen(x.m)) ELSE 0 - 1074
        F    == IF eu >= 2 THEN 0 ELSE 2 - eu
        five == ShiftRight(BigPow10(F), F).q
    IN  ShortestFrom(ShiftLeft(BigMul(x.m, five), x.e + F), F,
                     ShiftLeft(five, IF x.m = <<1>> /\ eu > 0 - 1074
                                     THEN eu - 2 + F ELSE eu - 1 + F),
                     ShiftLeft(five, eu - 1 + F),
                     x.e > eu)

\* The digits laid out by Number::toString: digits is a decimal without
\* trailing zeros and the decimal point belongs after its first n digits:
\* an integer up to 10^21, a point inside, leading 0.00 down to 10^-7, and
\* exponent notation beyond.
Layout(digits, n) ==
    IF Len(digits) <= n /\ n <= 21 THEN digits \o repeat("0", n - Len(digits))
    ELSE IF 0 < n /\ n <= 21
    THEN SubSeq(digits, 1, n) \o "." \o SubSeq(digits, n + 1, Len(digits))
    ELSE IF 0 - 6 < n /\ n <= 0 THEN "0." \o repeat("0", 0 - n) \o digits
    ELSE CharAt(digits, 1)
             \o (IF Len(digits) = 1 THEN "" ELSE "." \o SubSeq(digits, 2, Len(digits)))
             \o (IF n - 1 < 0 THEN "e-" \o BigToDecimal(<<1 - n>>)
                 ELSE "e+" \o BigToDecimal(<<n - 1>>))

\* The layout of the decimal s.c * 10^s.e10.
LayoutOf(s) ==
    Layout(StripTrailingZeros(BigToDecimal(s.c)), Len(BigToDecimal(s.c)) + s.e10)

\* Number::toString(x), radix 10: NaN, 0 (for -0 too), Infinity, and for
\* the other doubles a sign and the shortest digits that read back.
NumberToString(x) ==
    IF x.nan THEN "NaN"
    ELSE IF x.m = <<>> THEN "0"
    ELSE IF x = Infinity(x.neg) THEN (IF x.neg THEN "-" ELSE "") \o "Infinity"
    ELSE (IF x.neg THEN "-" ELSE "") \o LayoutOf(ShortestDigits(x))

\* The message of the RangeError that BigInt(x) throws, which names x.
NotAnIntegerMessage(x) ==
    "The number " \o NumberToString(x)
        \o " cannot be converted to a BigInt because it is not an integer"

\* BigInt(x) of a Number: the integer itself, or a RangeError when x is
\* not an integer (NaN and the infinities included).  In the form the model
\* keeps, a double with a negative exponent has an odd m and is no integer.
ToBigInt(x) ==
    IF x.nan \/ x = Infinity(x.neg) \/ x.e < 0
    THEN [ok |-> FALSE, message |-> NotAnIntegerMessage(x)]
    ELSE [ok |-> TRUE, neg |-> x.neg /\ x.m # <<>>, mag |-> ShiftLeft(x.m, x.e)]

\* Number(formatUnits(balance, decimals)) (lines 305, 317, 333).  viem's
\* formatUnits gives the decimal digits of a natural value (a balance is a
\* uint256), padded to decimals digits, with a point decimals places from
\* the right and the trailing zeros of the fraction dropped; Number of such
\* a literal is parseFloat of it.
formatUnits(value, decimals) ==
    LET display  == padStart(BigToDecimal(value), decimals, "0")
        integer  == SubSeq(display, 1, Len(display) - decimals)
        fraction == StripTrailingZeros(SubSeq(display, Len(display) - decimals + 1,
                                              Len(display)))
    IN  (IF integer = "" THEN "0" ELSE integer)
            \o (IF fraction = "" THEN "" ELSE "." \o fraction)

(***************************************************************************)
(* buildTransferCallData (useSponsoredTransactions.tsx, lines 178-189).    *)
(* The result is [ok |-> TRUE, data |-> the string] or, when BigInt        *)
(* throws, [ok |-> FALSE, message |-> the RangeError's message].           *)
(***************************************************************************)
\* The double that lies ulps places (-1, 0 or 1) above the positive normal
\* double x, counted in units of the last of its 53 bits.
NextDouble(x, ulps) ==
    IF ulps = 0 THEN x
    ELSE Double(FALSE,
                IF ulps > 0 THEN BigAdd(ShiftLeft(x.m, 53 - BitLen(x.m)), <<1>>)
                ELSE BigSub(ShiftLeft(x.m, 53 - BitLen(x.m)), <<1>>),
                x.e - (53 - BitLen(x.m)))

\* Math.pow(10, n) for a natural n.  The language leaves the result of
\* Math.pow to the engine ("implementation-approximated").  V8 (Node.js 20
\* and 22) computes it as fdlibm's pow does, in extended precision from
\* log2(10) and 2^(n * log2(10)), with the last correction dividing by
\* (t1 - 2) - (w + z * w).  The result is the double nearest to 10^n for
\* most n (for every n up to 25; 10^n is a double up to n = 22), and it is
\* the double just below or just above the nearest one for the n listed
\* (9.999999999999999e+25, 1.0000000000000001e+29, ...).  Beyond 10^308 it
\* is Infinity.
MathPow10(n) ==
    IF n > 308 THEN Infinity(FALSE)
    ELSE NextDouble(RoundToDouble(FALSE, BigPow10(n), FALSE, 0),
                    IF n \in {26, 36, 42, 70, 95, 96, 136, 142, 191, 218, 232, 242,
                              244, 260, 279, 284, 290, 294}
                    THEN 0 - 1
                    ELSE IF n \in {29, 34, 39, 49, 58, 61, 111, 126, 165, 166, 169, 187,
                                   210, 215, 225, 273, 274, 275}
                    THEN 1
                    ELSE 0)

\* BigInt(parseFloat(amount) * Math.pow(10, decimals))
ScaledAmount(amount, decimals) ==
    ToBigInt(DoubleMul(parseFloat(amount), MathPow10(decimals)))

\* Lines 184 and 186-188, from the recipient and the BigInt of line 185.
EncodeTransfer(recipient, tokenAmount) ==
    LET recipientPadded == padStart(slice(recipient, 2), 64, "0")
        amountPadded    == padStart(BigIntToString16(tokenAmount), 64, "0")
    IN  IF tokenAmount.ok
        THEN [ok |-> TRUE, data |-> "0xa9059cbb" \o recipientPadded \o amountPadded]
        ELSE [ok |-> FALSE, message |-> tokenAmount.message]

buildTransferCallData(recipient, amount, decimals) ==
    EncodeTransfer(recipient, ScaledAmount(amount, decimals))

(***************************************************************************)
(* Optional values: undefined is the empty sequence, a present value v is  *)
(* the one-element sequence <<v>>.                                         *)
(***************************************************************************)
undefined == <<>>
Some(v) == <<v>>

(***************************************************************************)
(* The inputs the model draws.                                             *)
(***************************************************************************)
WalletAddress == "0x00000000000000000000000000000000000000aa"
Recipient     == "0x1111111111111111111111111111111111111111"
TokenAddress  == "0x2222222222222222222222222222222222222222"

\* TokenTransferParams.  An absent tokenAddress is "" and an absent
\* decimals is 0: the code tests both by truthiness only
\* (params.tokenAddress ? ..., params.decimals || 18).
NativeParams  == [recipient |-> Recipient, tokenAddress |-> "", amount |-> "0.5",
                  decimals |-> 0, chainId |-> 11155111]
TokenParams   == [recipient |-> Recipient, tokenAddress |-> TokenAddress, amount |-> "25",
                  decimals |-> 6, chainId |-> 11155111]
NotANumberParams == [recipient |-> Recipient, tokenAddress |-> "", amount |-> "abc",
                  decimals |-> 0, chainId |-> 11155111]
ParamsSet == {NativeParams, TokenParams, NotANumberParams}

\* The arguments checkSponsorship is called with.
CheckParamsSet ==
    [recipient : {Recipient, TokenAddress, WalletAddress,
                  "0x3333333333333333333333333333333333333333"},
     tokenAddress : {""}, amount : {"1"}, decimals : {0}, chainId : {1, 11155111}]

\* What a call of the wallet SDK's sendTransaction can do: resolve with a
\* hash, reject with an Error carrying a message, or reject with a value
\* that is not an Error.
Failures ==
    [kind : {"Error"}, v : {"paymaster rejected the user operation", "gas too low",
                            "User rejected the request"}]
        \cup [kind : {"thrown"}, v : {"sponsorship service unavailable"}]

\* The hash the chain gives the n-th submission of invocation s.
HashOf(s, n) == "0xhash" \o CharAt(DecChars, s + 1) \o CharAt(DecChars, n + 1)

\* The number of sendSponsoredTransaction invocations a behaviour holds.
MaxSends == 2
Sends == 1..MaxSends

(***************************************************************************)
(* State.                                                                  *)
(***************************************************************************)
VARIABLES
    wallet,   \* whether useWallets() holds a wallet with an address (smartWallet)
    status,   \* the hook's useState value (SponsoredTransactionStatus)
    sends,    \* the invocations of sendSponsoredTransaction, by call order
    during,   \* the invocation that runs without overlap (the last one that
              \* passed the wallet guard, if no other awaited a submission as
              \* it started; 0: none) and whether reset was called while it
              \* awaited a submission: kept for stating properties; no code
              \* reads it
    check,    \* the invocation of checkSponsorship
    calldata, \* an application of buildTransferCallData to drawn inputs
    config,   \* pool-data.ts: the token addresses taken from the chain configuration
    pool,     \* pool-data.ts: the invocation of fetchPoolData
    balances  \* pool-data.ts: the invocation of fetchUserBalances

vars == <<wallet, status, sends, during, check, calldata, config, pool, balances>>

\* useState's initial value (lines 33-36), which reset restores (41-44).
InitialStatus == [isLoading |-> FALSE, isSponsored |-> FALSE,
                  transactionHash |-> undefined, error |-> undefined]

\* An invocation of sendSponsoredTransaction: where it stands (pc), its
\* argument, the transactions it has handed to sendTransaction (subs), the
\* error its first try block caught, the error its retry caught, the value
\* its promise rejected with, and the status as it stood when the promise
\* settled (atEnd, kept for stating properties; no code reads it).
IdleSend == [pc |-> "idle", params |-> NativeParams, subs |-> <<>>,
             firstError |-> undefined, retryError |-> undefined,
             rejection |-> undefined, atEnd |-> undefined]

\* An invocation of checkSponsorship: the arguments it passed to
\* isGasSponsorshipAvailable, the error its try block caught, the boolean
\* it returned, the value it rejected with.
IdleCheck == [pc |-> "idle", args |-> undefined, caught |-> undefined,
              result |-> undefined, rejection |-> undefined]

IdleCallData == [pc |-> "idle", recipient |-> "", amount |-> "", decimals |-> 0,
                 result |-> undefined]

\* The token addresses of the Sepolia chain configuration (lines 70-73).
\* The configuration is imported from ./chains; an address it does not hold
\* is "" (tokens.usdc?.address || "").
DefaultConfig == [USDC_ADDRESS |-> "0x1c7d4b196cb0c7b01d743fbc6116a902379c7238",
                  COPE_ADDRESS |-> "0x4444444444444444444444444444444444444444"]

\* An invocation of fetchPoolData: where it stands (pc), its argument, the
\* external calls it has made in order, the values of its constants
\* uniswapAnalytics, usdcCopePrice and ethUsdcPrice once assigned, the
\* object it resolved with, the Error it rejected with, the response whose
\* body it awaits (pending: the constant response or copeResponse), and
\* what the indexer gave it, body included (indexer, kept for stating
\* properties; no code reads it).  An absent walletAddress is "" (the code
\* tests it by truthiness).
IdlePool == [pc |-> "idle", walletAddress |-> "", calls |-> <<>>,
             uniswapAnalytics |-> undefined, usdcCopePrice |-> undefined,
             ethUsdcPrice |-> undefined, result |-> undefined,
             rejection |-> undefined, pending |-> undefined, indexer |-> undefined]

\* An invocation of fetchUserBalances: where it stands, who called it, its
\* argument, the reads it has made in order, the responses they got (reads,
\* kept for stating properties), its variables ethAmount, usdcAmount and
\* copeAmount, the UserBalance it resolved with, the Error it rejected with.
IdleBalances == [pc |-> "idle", caller |-> "", walletAddress |-> "", calls |-> <<>>,
                 reads |-> <<>>, ethAmount |-> Zero, usdcAmount |-> Zero,
                 copeAmount |-> Zero, result |-> undefined, rejection |-> undefined]

(***************************************************************************)
(* sendSponsoredTransaction's pure parts (lines 68-165).                   *)
(***************************************************************************)
DefaultDecimals == 18
NativeDecimals  == 18
TokenGasLimit   == 100000
NativeGasLimit  == 21000

JsError(message) == [kind |-> "Error", v |-> message]

\* A guard that fails with another message.
NoWalletErrorReworded == JsError("Wallet not ready")

\* Lines 49 and 70.
NoWalletError == JsError("No smart wallet connected")

\* A catch block that reports eligibility when the check failed.
EligibilityAfterFailureTrue(error) == TRUE

\* Lines 61-64: checkSponsorship's catch block returns false.
EligibilityAfterFailure(error) == FALSE

\* A transaction to submit, or the message of the RangeError that building
\* it threw.
TokenTx(params, cd, gasLimit) ==
    IF cd.ok
    THEN [ok |-> TRUE,
          tx |-> [to |-> params.tokenAddress, data |-> Some(cd.data),
                  value |-> undefined, gasLimit |-> gasLimit]]
    ELSE [ok |-> FALSE, message |-> cd.message]

NativeTx(params, value, gasLimit) ==
    IF value.ok
    THEN [ok |-> TRUE,
          tx |-> [to |-> params.recipient, data |-> undefined,
                  value |-> Some(BigIntToString16(value)), gasLimit |-> gasLimit]]
    ELSE [ok |-> FALSE, message |-> value.message]

\* Lines 82-93 and 120-131: the transaction built from params, token
\* transfer or native transfer, with the gas limits given.
BuildTx(params, tokenGas, nativeGas) ==
    IF params.tokenAddress # ""
    THEN TokenTx(params,
                 buildTransferCallData(params.recipient, params.amount,
                     IF params.decimals # 0 THEN params.decimals ELSE DefaultDecimals),
                 tokenGas)
    ELSE NativeTx(params, ScaledAmount(params.amount, NativeDecimals), nativeGas)

\* Lines 82-93: the transaction of the first submission.
txParams(params) == BuildTx(params, undefined, undefined)

\* A fallback that resubmits the first transaction as it was.
fallbackParamsNoGasLimit(params) == txParams(params)

\* Lines 120-131: the transaction of the fallback submission, built again
\* from params, with an explicit gas limit.
fallbackParams(params) == BuildTx(params, Some(TokenGasLimit), Some(NativeGasLimit))

\* The two builders at the arguments the model draws, computed once.
TxParamsOf       == [params \in ParamsSet |-> txParams(params)]
FallbackParamsOf == [params \in ParamsSet |-> fallbackParams(params)]

\* Line 110: error instanceof Error ? error.message : 'Unknown error occurred'
errorMessage(error) ==
    IF error.kind = "Error" THEN error.v ELSE "Unknown error occurred"

\* A retry whose own message is lost.
fallbackErrorMessageDropped(error) == "Fallback transaction failed"

\* Line 145.
fallbackErrorMessage(error) ==
    IF error.kind = "Error" THEN error.v ELSE "Fallback transaction failed"

\* A classification that takes every failure for a sponsorship failure.
IsSponsorshipErrorAlways(message) == TRUE

\* Line 113.
IsSponsorshipError(message) ==
    \/ includes(message, "sponsorship")
    \/ includes(message, "paymaster")
    \/ includes(message, "gas too low")

\* The setStatus updaters, each applied to the latest status.
SetLoading(st)        == [st EXCEPT !.isLoading = TRUE, !.error = undefined]    \* line 73
SetSponsoredStaysTrue(st, b) == [st EXCEPT !.isSponsored = TRUE]  \* the mark is never taken back
SetSponsored(st, b)   == [st EXCEPT !.isSponsored = b]                          \* 79, 117
SetHashUnrecorded(st, hash) == [st EXCEPT !.isLoading = FALSE]       \* the hash is not kept
SetHash(st, hash)     == [st EXCEPT !.isLoading = FALSE,
                                    !.transactionHash = Some(hash)]             \* 100, 135
SetError(st, message) == [st EXCEPT !.isLoading = FALSE, !.error = Some(message)] \* 147, 156

\* Lines 143-154: the inner catch block.
CatchFallback(st, send, fallbackError) ==
    LET message == fallbackErrorMessage(fallbackError)
        st1     == SetError(st, message)
    IN  [status |-> st1,
         send   |-> [send EXCEPT !.pc = "rejected", !.retryError = Some(fallbackError),
                        !.rejection = Some(JsError("Transaction failed: " \o message)),
                        !.atEnd = Some(st1)]]

\* Lines 116-133: the fallback path up to the await of the second
\* submission, or to the inner catch block when building it threw.
StartFallback(st, send, fallback) ==
    IF fallback.ok
    THEN [status |-> st,
          send   |-> [send EXCEPT !.pc = "retry", !.subs = Append(@, fallback.tx)]]
    ELSE CatchFallback(st, send, JsError(fallback.message))

\* Lines 155-163: any other error is recorded and thrown again.
Rethrow(st, send, error) ==
    [status |-> st,
     send   |-> [send EXCEPT !.pc = "rejected", !.rejection = Some(error),
                             !.atEnd = Some(st)]]

\* Lines 108-164: the outer catch block, up to the await of the fallback
\* submission.
CatchFirst(st, send, error) ==
    IF IsSponsorshipError(errorMessage(error))
    THEN StartFallback(SetSponsored(st, FALSE),
                       [send EXCEPT !.firstError = Some(error)],
                       FallbackParamsOf[send.params])
    ELSE Rethrow(SetError(st, errorMessage(error)),
                 [send EXCEPT !.firstError = Some(error)], error)

(***************************************************************************)
(* The hook's operations.                                                  *)
(***************************************************************************)
Init ==
    /\ wallet = FALSE
    /\ status = InitialStatus
    /\ sends = [s \in Sends |-> IdleSend]
    /\ during = [send |-> 0, reset |-> FALSE]
    /\ check = IdleCheck
    /\ calldata = IdleCallData
    /\ config = DefaultConfig
    /\ pool = IdlePool
    /\ balances = IdleBalances

\* useSmartWallets() starts or stops reporting a wallet with an address
\* (line 38).
ConnectWallet ==
    /\ ~wallet
    /\ wallet' = TRUE
    /\ UNCHANGED <<status, sends, during, check, calldata, config, pool, balances>>

DisconnectWallet ==
    /\ wallet
    /\ wallet' = FALSE
    /\ UNCHANGED <<status, sends, during, check, calldata, config, pool, balances>>

\* A reset that keeps the hash of the last transaction.
\* A submission of some invocation is awaited (line 98 or line 133).
InFlight == \E s \in Sends : sends[s].pc \in {"first", "retry"}

\* The record after a call of reset: reset was called during the
\* invocation that runs without overlap if it is awaiting a submission.
ResetCalled ==
    IF during.send \in Sends /\ sends[during.send].pc \in {"first", "retry"}
    THEN [during EXCEPT !.reset = TRUE]
    ELSE during

\* The record after invocation s passed the wallet guard: s runs without
\* overlap if no invocation is awaiting a submission, and otherwise neither
\* s nor the invocations it overlaps do.
SendCalled(s) ==
    [send |-> IF InFlight THEN 0 ELSE s, reset |-> FALSE]

ResetKeepsHash ==
    /\ status' = [InitialStatus EXCEPT !.transactionHash = status.transactionHash]
    /\ during' = ResetCalled
    /\ UNCHANGED <<wallet, sends, check, calldata, config, pool, balances>>

\* reset (lines 40-45): it has no guard, so it also runs while a send awaits
\* a submission.
Reset ==
    /\ status' = InitialStatus
    /\ during' = ResetCalled
    /\ UNCHANGED <<wallet, sends, check, calldata, config, pool, balances>>

\* Lines 73-98: the first try block up to its await, or to the catch block
\* when building the transaction threw.
StartFirst(st, send, built) ==
    IF built.ok
    THEN [status |-> st, send |-> [send EXCEPT !.pc = "first", !.subs = <<built.tx>>]]
    ELSE CatchFirst(st, send, JsError(built.message))

\* sendSponsoredTransaction(params) up to its first await (lines 68-98).
\* Invocations take the slots of sends in order.
SendStart(s, params) ==
    /\ sends[s].pc = "idle"
    /\ \A t \in Sends : t < s => sends[t].pc # "idle"
    /\ IF ~wallet
       THEN /\ sends' = [sends EXCEPT ![s] =
                            [@ EXCEPT !.pc = "rejected", !.params = params,
                                      !.rejection = Some(NoWalletError),
                                      !.atEnd = Some(status)]]
            /\ UNCHANGED <<status, during>>
       ELSE \E r \in {StartFirst(SetSponsored(SetLoading(status), TRUE),
                                 [sends[s] EXCEPT !.params = params],
                                 TxParamsOf[params])} :
                /\ status' = r.status
                /\ sends' = [sends EXCEPT ![s] = r.send]
                /\ during' = SendCalled(s)
    /\ UNCHANGED <<wallet, check, calldata, config, pool, balances>>

\* The first submission resolves with a hash (lines 98-106).
FirstResolves(s) ==
    /\ sends[s].pc = "first"
    /\ LET st == SetHash(status, HashOf(s, 1))
       IN  /\ status' = st
           /\ sends' = [sends EXCEPT ![s] = [@ EXCEPT !.pc = "resolved",
                                                      !.atEnd = Some(st)]]
    /\ UNCHANGED <<wallet, check, calldata, config, pool, balances, during>>

\* The first submission rejects (lines 108-133 or 108-162).
FirstRejects(s, error) ==
    /\ sends[s].pc = "first"
    /\ \E r \in {CatchFirst(status, sends[s], error)} :
           /\ status' = r.status
           /\ sends' = [sends EXCEPT ![s] = r.send]
    /\ UNCHANGED <<wallet, check, calldata, config, pool, balances, during>>

\* The fallback submission resolves with a hash (lines 133-141).
RetryResolves(s) ==
    /\ sends[s].pc = "retry"
    /\ LET st == SetHash(status, HashOf(s, 2))
       IN  /\ status' = st
           /\ sends' = [sends EXCEPT ![s] = [@ EXCEPT !.pc = "resolved",
                                                      !.atEnd = Some(st)]]
    /\ UNCHANGED <<wallet, check, calldata, config, pool, balances, during>>

\* The fallback submission rejects (lines 143-154).
RetryRejects(s, error) ==
    /\ sends[s].pc = "retry"
    /\ \E r \in {CatchFallback(status, sends[s], error)} :
           /\ status' = r.status
           /\ sends' = [sends EXCEPT ![s] = r.send]
    /\ UNCHANGED <<wallet, check, calldata, config, pool, balances, during>>

\* checkSponsorship(params) up to its await (lines 47-58).
CheckStart(params) ==
    /\ check.pc # "pending"
    /\ IF ~wallet
       THEN check' = [IdleCheck EXCEPT !.pc = "rejected",
                                       !.rejection = Some(NoWalletError)]
       ELSE check' = [IdleCheck EXCEPT !.pc = "pending",
                         !.args = Some([to |-> params.recipient,
                                        chainId |-> params.chainId,
                                        address |-> WalletAddress])]
    /\ UNCHANGED <<wallet, status, sends, during, calldata, config, pool, balances>>

\* isGasSponsorshipAvailable resolves with a boolean (lines 53-60).
CheckResolves(available) ==
    /\ check.pc = "pending"
    /\ check' = [check EXCEPT !.pc = "returned", !.result = Some(available)]
    /\ UNCHANGED <<wallet, status, sends, during, calldata, config, pool, balances>>

\* isGasSponsorshipAvailable rejects (lines 61-65).
CheckRejects(error) ==
    /\ check.pc = "pending"
    /\ check' = [check EXCEPT !.pc = "returned", !.caught = Some(error),
                               !.result = Some(EligibilityAfterFailure(error))]
    /\ UNCHANGED <<wallet, status, sends, during, calldata, config, pool, balances>>

Next ==
    \/ ConnectWallet
    \/ DisconnectWallet
    \/ Reset
    \/ \E s \in Sends, params \in ParamsSet : SendStart(s, params)
    \/ \E s \in Sends : FirstResolves(s)
    \/ \E s \in Sends, error \in Failures : FirstRejects(s, error)
    \/ \E s \in Sends : RetryResolves(s)
    \/ \E s \in Sends, error \in {[kind |-> "Error", v |-> "User rejected the request"],
                                  [kind |-> "thrown", v |-> "sponsorship service unavailable"]} :
           RetryRejects(s, error)

Spec == Init /\ [][Next]_vars

\* checkSponsorship on its own: it reads the wallet and touches nothing else.
NextCheck ==
    \/ ConnectWallet
    \/ DisconnectWallet
    \/ \E params \in CheckParamsSet : CheckStart(params)
    \/ \E available \in BOOLEAN : CheckResolves(available)
    \/ \E error \in Failures : CheckRejects(error)

SpecCheck == Init /\ [][NextCheck]_vars

(***************************************************************************)
(* buildTransferCallData on its own (lines 178-189).                       *)
(***************************************************************************)
\* The arguments drawn: recipients of 40, of 3 and of 66 hex digits; amounts
\* that scale to an integer (one of them behind a leading space), that do
\* not, that are no number or no finite one, and that scale beyond 64 hex
\* digits.
InitCallData ==
    /\ wallet = FALSE
    /\ status = InitialStatus
    /\ sends = [s \in Sends |-> IdleSend]
    /\ during = [send |-> 0, reset |-> FALSE]
    /\ check = IdleCheck
    /\ calldata \in [pc : {"input"},
                     recipient : {Recipient, "0xabc", "0x" \o repeat("f", 66)},
                     amount : {"1", " 1", "0.5", "25", "4.35", "abc", "Infinity", "1e60",
                               "123456.789"},
                     decimals : {2, 6, 18},
                     result : {undefined}]
    /\ config = DefaultConfig
    /\ pool = IdlePool
    /\ balances = IdleBalances

BuildCallData ==
    /\ calldata.pc = "input"
    /\ calldata' = [calldata EXCEPT !.pc = "done",
                       !.result = Some(buildTransferCallData(calldata.recipient,
                                           calldata.amount, calldata.decimals))]
    /\ UNCHANGED <<wallet, status, sends, during, check, config, pool, balances>>

SpecCallData == InitCallData /\ [][BuildCallData]_vars

(***************************************************************************)
(* pool-data.ts.  A response of an HTTP endpoint is one of                 *)
(*   [kind |-> "failed", message]   fetch rejected, or the read of the     *)
(*                                  body did (text(), json()), with an     *)
(*                                  Error carrying the message,            *)
(*   [kind |-> "http", status, body]  a response that is not ok,           *)
(*   [kind |-> "json", ...]         an ok response with its parsed body.   *)
(* The response arrives when fetch settles; its body is delivered by a     *)
(* second await, and until then the response is pending.                   *)
(* In a body an absent member is undefined, or "" where the code tests the *)
(* member by truthiness only; a JSON number is its literal's text; the     *)
(* errors member is the text JSON.stringify gives for it.                  *)
(* An outcome is [ok |-> TRUE, value] or [ok |-> FALSE, error].            *)
(***************************************************************************)
Returned(value) == [ok |-> TRUE, value |-> value]
Thrown(error)   == [ok |-> FALSE, error |-> error]

\* error instanceof Error ? error.message : 'Unknown error' (lines 292, 427).
MessageOf(error) == IF error.kind = "Error" THEN error.v ELSE "Unknown error"

\* token?.symbol || 'UNKNOWN' and its like (lines 234-243).
TokenInfo(token) ==
    LET t == IF token = undefined THEN [symbol |-> "", name |-> "", id |-> ""] ELSE token[1]
    IN  [symbol  |-> IF t.symbol = "" THEN "UNKNOWN" ELSE t.symbol,
         name    |-> IF t.name = "" THEN "Unknown Token" ELSE t.name,
         address |-> t.id]

\* Lines 224-244: latestDayData is pool.poolDayData?.[0] || {}, and each
\* number is parseFloat(member || '0').
AnalyticsResult(p) ==
    LET latestDayData == IF Len(p.poolDayData) = 0 THEN [volumeUSD |-> "", feesUSD |-> ""]
                         ELSE p.poolDayData[1]
        members == [tvlUSD |-> p.totalValueLockedUSD, volumeUSD |-> p.volumeUSD,
                    feesUSD |-> p.feesUSD, totalLiquidity |-> p.totalValueLockedUSD,
                    volume24h |-> latestDayData.volumeUSD,
                    fees24h |-> latestDayData.feesUSD]
    IN  [num \in DOMAIN members |-> parseFloat(IF members[num] = "" THEN "0"
                                                ELSE members[num])]
            @@ [token0 |-> TokenInfo(p.token0), token1 |-> TokenInfo(p.token1)]

\* An indexer that never reports errors.
HasGraphQLErrorsNever(body) == FALSE

\* if (data.errors) (line 210): the member is there and is not one of the
\* values JavaScript takes for false.
HasGraphQLErrors(body) ==
    body.errors # undefined /\ body.errors[1] \notin {"null", "false", "0", "\"\"", ""}

\* fetchUniswapPoolAnalytics from the response on (lines 199-253).
fetchUniswapPoolAnalytics(response) ==
    IF response.kind = "failed" THEN Thrown(JsError(response.message))
    ELSE IF response.kind = "http"
    THEN Thrown(JsError("HTTP error! status: " \o ToString(response.status)
                            \o ", body: " \o response.body))
    ELSE IF HasGraphQLErrors(response)
    THEN Thrown(JsError("GraphQL errors: " \o response.errors[1]))
    ELSE IF response.data = undefined \/ response.data[1].pool = undefined
    THEN Thrown(JsError("Pool not found in subgraph - check if pool exists on Sepolia"))
    ELSE Returned(AnalyticsResult(response.data[1].pool[1]))

\* Lines 273-288 from the price read.
CopeRate(copeUsdPrice) ==
    IF ~IsTruthy(copeUsdPrice) THEN Thrown(JsError("COPE price not found on CoinGecko"))
    ELSE Returned(DoubleDiv(FromNat(1), copeUsdPrice))

\* The try block of fetchUsdcCopePrice from the response on (lines 265-288).
CopePriceTry(response) ==
    IF response.kind = "failed" THEN Thrown(JsError(response.message))
    ELSE IF response.kind = "http"
    THEN Thrown(JsError("CoinGecko API failed: " \o ToString(response.status)))
    ELSE IF response.cope = undefined \/ response.cope[1].usd = undefined
    THEN Thrown(JsError("COPE price not found on CoinGecko"))
    ELSE CopeRate(parseFloat(response.cope[1].usd[1]))

\* Lines 290-293.
CopePriceCatch(outcome) ==
    IF outcome.ok THEN outcome
    ELSE Thrown(JsError("Unable to fetch real COPE price: " \o MessageOf(outcome.error)))

fetchUsdcCopePrice(response) == CopePriceCatch(CopePriceTry(response))

\* fetchEthUsdcPrice from the response on (lines 126-132): the response's
\* status is not looked at; data.ethereum.usd throws a TypeError when the
\* body has no ethereum member and is undefined when that has no usd.
fetchEthUsdcPrice(response) ==
    IF response.kind = "failed" \/ response.ethereum = undefined
    THEN Thrown(JsError("Unable to fetch real ETH price. "
                            \o "Please check your internet connection."))
    ELSE IF response.ethereum[1].usd = undefined THEN Returned(undefined)
    ELSE Returned(Some(parseFloat(response.ethereum[1].usd[1])))

(***************************************************************************)
(* fetchUserBalances (lines 299-349).  A read's response is                *)
(* [kind |-> "failed", message] or [kind |-> "value", value], the value a  *)
(* natural (the balance in the asset's smallest unit).                     *)
(***************************************************************************)
EthDecimals  == 18
UsdcDecimals == 6
CopeDecimals == 18

\* ADDRESS && ADDRESS !== "0x" (lines 309 and 325).
HasToken(address) == address # "" /\ address # "0x"

\* Number(formatUnits(balance, decimals)) (lines 305, 317, 333).
AmountOf(balance, decimals) == parseFloat(formatUnits(balance, decimals))

\* A token read whose failure leaves one unit behind.
TokenAmountAfterLeavesOne(current, response, decimals) ==
    IF response.kind = "failed" THEN FromNat(1) ELSE AmountOf(response.value, decimals)

\* The amount of a token after its read (lines 310-320, 326-336): the
\* variable keeps its value when the read fails.
TokenAmountAfter(current, response, decimals) ==
    IF response.kind = "failed" THEN current ELSE AmountOf(response.value, decimals)

\* Lines 339-344.
ReturnBalances(b) ==
    [b EXCEPT !.pc = "resolved",
              !.result = Some([eth |-> b.ethAmount, usdc |-> b.usdcAmount,
                               cope |-> b.copeAmount, totalUsd |-> Zero])]

\* Lines 324-337 up to the await.
BeginCope(b, cfg) ==
    IF HasToken(cfg.COPE_ADDRESS)
    THEN [b EXCEPT !.pc = "cope", !.calls = Append(@, "cope.balanceOf")]
    ELSE ReturnBalances(b)

\* Lines 308-321 up to the await.
BeginUsdc(b, cfg) ==
    IF HasToken(cfg.USDC_ADDRESS)
    THEN [b EXCEPT !.pc = "usdc", !.calls = Append(@, "usdc.balanceOf")]
    ELSE BeginCope(b, cfg)

\* Lines 299-304.
StartBalances(caller, walletAddress) ==
    [IdleBalances EXCEPT !.pc = "eth", !.caller = caller, !.walletAddress = walletAddress,
                         !.calls = <<"getBalance">>]

\* getBalance settles (lines 302-309, or 345-348 when it rejects).
AfterEthRead(b, response, cfg) ==
    IF response.kind = "failed"
    THEN [b EXCEPT !.pc = "rejected", !.reads = Append(@, response),
                   !.rejection = Some(JsError("Unable to fetch real user balances. "
                                                  \o "Please check wallet connection."))]
    ELSE BeginUsdc([b EXCEPT !.reads = Append(@, response),
                             !.ethAmount = AmountOf(response.value, EthDecimals)], cfg)

\* The USDC balanceOf settles (lines 316-325).
AfterUsdcRead(b, response, cfg) ==
    BeginCope([b EXCEPT !.reads = Append(@, response),
                        !.usdcAmount = TokenAmountAfter(@, response, UsdcDecimals)], cfg)

\* The COPE balanceOf settles (lines 332-344).
AfterCopeRead(b, response) ==
    ReturnBalances([b EXCEPT !.reads = Append(@, response),
                             !.copeAmount = TokenAmountAfter(@, response, CopeDecimals)])

(***************************************************************************)
(* fetchPoolData (lines 354-429).                                          *)
(***************************************************************************)
DaysPerYear == 365
Percent     == 100

\* x || 0 for a Number (lines 401-407).
OrZero(x) == IF IsTruthy(x) THEN x ELSE Zero

\* An APR computed whatever the fees and the value locked are.
aprUnguarded(fees24h, tvlUSD) ==
    DoubleMul(DoubleDiv(DoubleMul(fees24h, FromNat(DaysPerYear)), tvlUSD),
              FromNat(Percent))

\* Lines 390-396: fees24h && tvlUSD && tvlUSD > 0 (a Number that is truthy
\* is above 0 when its sign is not set).
apr(fees24h, tvlUSD) ==
    IF IsTruthy(fees24h) /\ IsTruthy(tvlUSD) /\ ~tvlUSD.neg
    THEN DoubleMul(DoubleDiv(DoubleMul(fees24h, FromNat(DaysPerYear)), tvlUSD),
                   FromNat(Percent))
    ELSE Zero

\* Lines 398-418.  The analytics always hold token0 and token1.
poolData(a, usdcCopePrice, ethUsdcPrice) ==
    [usdcCopePrice  |-> usdcCopePrice,
     ethUsdcPrice   |-> ethUsdcPrice,
     totalLiquidity |-> OrZero(a.totalLiquidity),
     volume24h      |-> OrZero(a.volume24h),
     fees24h        |-> OrZero(a.fees24h),
     apr            |-> apr(a.fees24h, a.tvlUSD),
     tvlUSD         |-> OrZero(a.tvlUSD),
     volumeUSD      |-> OrZero(a.volumeUSD),
     feesUSD        |-> OrZero(a.feesUSD),
     token0         |-> a.token0,
     token1         |-> a.token1]

\* A total that leaves the USDC out.
totalUsdWithoutUsdc(userBalance, ethUsdcPrice, usdcCopePrice) ==
    DoubleAdd(DoubleMul(userBalance.eth, ethUsdcPrice),
              DoubleMul(userBalance.cope, usdcCopePrice))

\* Lines 378-382.
totalUsd(userBalance, ethUsdcPrice, usdcCopePrice) ==
    DoubleAdd(DoubleAdd(DoubleMul(userBalance.eth, ethUsdcPrice), userBalance.usdc),
              DoubleMul(userBalance.cope, usdcCopePrice))

\* Lines 389-421.
ResolvePool(p, userBalance) ==
    [p EXCEPT !.pc = "resolved",
              !.result = Some([poolData |-> poolData(p.uniswapAnalytics[1],
                                                     p.usdcCopePrice[1], p.ethUsdcPrice),
                               userBalance |-> userBalance])]

\* Lines 423-428.
RejectPool(p, error) ==
    [p EXCEPT !.pc = "rejected",
              !.rejection = Some(JsError("Failed to fetch real pool data: "
                                             \o MessageOf(error)))]

\* Lines 368-375, and on to 421 when no wallet address was given.
AfterEthPrice(p, outcome) ==
    IF ~outcome.ok THEN RejectPool(p, outcome.error)
    ELSE IF p.walletAddress # ""
    THEN [p EXCEPT !.pc = "balances", !.ethUsdcPrice = outcome.value,
                   !.calls = Append(@, "fetchUserBalances")]
    ELSE ResolvePool([p EXCEPT !.ethUsdcPrice = outcome.value], undefined)

\* A balance step whose failure is passed on to the caller of fetchPoolData.
AfterBalancesPropagating(p, b) ==
    IF b.pc = "rejected" THEN RejectPool(p, b.rejection[1])
    ELSE IF b.pc = "resolved" THEN ResolvePool(p, b.result) ELSE p

\* Lines 375-421, once fetchUserBalances has settled as b.  ethUsdcPrice is
\* undefined or a Number, and undefined is NaN in a product.
AfterBalances(p, b) ==
    IF b.pc \notin {"resolved", "rejected"} THEN p
    ELSE ResolvePool(p, IF b.pc = "resolved"
                        THEN Some([b.result[1] EXCEPT !.totalUsd =
                                 totalUsd(b.result[1],
                                          IF p.ethUsdcPrice = undefined THEN NaN
                                          ELSE p.ethUsdcPrice[1],
                                          p.usdcCopePrice[1])])
                        ELSE undefined)

(***************************************************************************)
(* The responses the model draws for pool-data.ts.                         *)
(***************************************************************************)
\* Pools the indexer reports: fees and value locked that give an APR; no
\* value locked; no numbers, no day data and no token names; a value
\* locked with a fraction and a volume that is no number; a day without
\* fees.
Pools ==
    LET usdc == Some([symbol |-> "USDC", name |-> "USD Coin",
                      id |-> "0xa0b86991c6218b36c1d19d4a2e9eb0ce3606eb48"])
        weth == Some([symbol |-> "WETH", name |-> "Wrapped Ether",
                      id |-> "0xc02aaa39b223fe8d0a0e5c4f27ead9083c756cc2"])
    IN  {[totalValueLockedUSD |-> "1000", volumeUSD |-> "5000.5", feesUSD |-> "2.5",
          poolDayData |-> <<[volumeUSD |-> "250", feesUSD |-> "100"]>>,
          token0 |-> usdc, token1 |-> weth],
         [totalValueLockedUSD |-> "0", volumeUSD |-> "5000.5", feesUSD |-> "2.5",
          poolDayData |-> <<[volumeUSD |-> "250", feesUSD |-> "100"]>>,
          token0 |-> usdc, token1 |-> weth],
         [totalValueLockedUSD |-> "", volumeUSD |-> "", feesUSD |-> "",
          poolDayData |-> <<>>,
          token0 |-> undefined,
          token1 |-> Some([symbol |-> "", name |-> "", id |-> ""])],
         [totalValueLockedUSD |-> "123456.789", volumeUSD |-> "abc", feesUSD |-> "0.5",
          poolDayData |-> <<[volumeUSD |-> "10.25", feesUSD |-> "12.34"],
                            [volumeUSD |-> "7", feesUSD |-> "8"]>>,
          token0 |-> usdc, token1 |-> weth],
         [totalValueLockedUSD |-> "2500.5", volumeUSD |-> "40", feesUSD |-> "0.12",
          poolDayData |-> <<[volumeUSD |-> "0", feesUSD |-> "0"]>>,
          token0 |-> usdc, token1 |-> weth]}

\* fetch rejects, the read of a body rejects, and a read of the chain
\* rejects.
FetchFailed == [kind |-> "failed", message |-> "Failed to fetch"]
BodyFailed  == [kind |-> "failed", message |-> "Unexpected end of JSON input"]
ReadFailed  == [kind |-> "failed", message |-> "RPC request failed"]

AnalyticsResponses ==
    {FetchFailed,
     [kind |-> "http", status |-> 500, body |-> "Internal Server Error"],
     [kind |-> "json", errors |-> Some("[{\"message\":\"indexing_error\"}]"),
      data |-> undefined],
     [kind |-> "json", errors |-> undefined, data |-> undefined],
     [kind |-> "json", errors |-> undefined, data |-> Some([pool |-> undefined])]}
        \cup [kind : {"json"},
              errors : {undefined, Some("[{\"message\":\"bad indexers\"}]")},
              data : {Some([pool |-> Some(p)]) : p \in Pools}]

CopePriceResponses ==
    {FetchFailed,
     [kind |-> "http", status |-> 429],
     [kind |-> "json", cope |-> undefined],
     [kind |-> "json", cope |-> Some([usd |-> undefined])],
     [kind |-> "json", cope |-> Some([usd |-> Some("0")])],
     [kind |-> "json", cope |-> Some([usd |-> Some("0.2")])],
     [kind |-> "json", cope |-> Some([usd |-> Some("0.000123")])]}

EthPriceResponses ==
    {FetchFailed,
     [kind |-> "json", ethereum |-> undefined],
     [kind |-> "json", ethereum |-> Some([usd |-> undefined])],
     [kind |-> "json", ethereum |-> Some([usd |-> Some("2000")])],
     [kind |-> "json", ethereum |-> Some([usd |-> Some("2345.67")])]}

EthBalanceResponses ==
    {ReadFailed,
     [kind |-> "value", value |-> ParseNat("1000000000000000000")],
     [kind |-> "value", value |-> ParseNat("1234500000000000")]}

UsdcBalanceResponses ==
    {ReadFailed,
     [kind |-> "value", value |-> ParseNat("100000000")],
     [kind |-> "value", value |-> ParseNat("1")]}

CopeBalanceResponses ==
    {ReadFailed,
     [kind |-> "value", value |-> ParseNat("50000000000000000000")],
     [kind |-> "value", value |-> <<>>]}

\* The token addresses the chain configuration may hold.
Configs == [USDC_ADDRESS : {"", "0x", DefaultConfig.USDC_ADDRESS},
            COPE_ADDRESS : {"", DefaultConfig.COPE_ADDRESS}]

(***************************************************************************)
(* The operations of pool-data.ts.  The module keeps no state of its own:  *)
(* the model follows one invocation of fetchPoolData or of                 *)
(* fetchUserBalances at a time.                                            *)
(***************************************************************************)
InitPool ==
    /\ wallet = FALSE
    /\ status = InitialStatus
    /\ sends = [s \in Sends |-> IdleSend]
    /\ during = [send |-> 0, reset |-> FALSE]
    /\ check = IdleCheck
    /\ calldata = IdleCallData
    /\ config \in Configs
    /\ pool = IdlePool
    /\ balances = IdleBalances

\* fetchPoolData(walletAddress) up to its first await (lines 354-360).
FetchPoolDataStart(walletAddress) ==
    /\ pool.pc \in {"idle", "resolved", "rejected"}
    /\ balances.pc \in {"idle", "resolved", "rejected"}
    /\ pool' = [IdlePool EXCEPT !.pc = "analytics", !.walletAddress = walletAddress,
                                !.calls = <<"fetchUniswapPoolAnalytics">>]
    /\ balances' = IdleBalances
    /\ UNCHANGED <<config, wallet, status, sends, during, check, calldata>>

\* The indexer's response arrives: fetch settles (line 183).  When fetch
\* rejects the invocation ends (lines 249-253, 423-428); otherwise the body
\* is awaited, by response.text() (line 202) or response.json() (line 207).
AnalyticsResponds(response) ==
    /\ pool.pc = "analytics"
    /\ pool' = IF response.kind = "failed"
               THEN RejectPool([pool EXCEPT !.indexer = Some(response)],
                               fetchUniswapPoolAnalytics(response).error)
               ELSE [pool EXCEPT !.pc = "analyticsBody", !.pending = Some(response)]
    /\ UNCHANGED <<config, balances, wallet, status, sends, during, check, calldata>>

\* The body of the indexer's response is delivered, or its read fails
\* (lines 202-253, then 360-364 or 423-428).
AnalyticsBodyArrives(delivered) ==
    /\ pool.pc = "analyticsBody"
    /\ \E response \in {IF delivered THEN pool.pending[1] ELSE BodyFailed} :
       \E outcome \in {fetchUniswapPoolAnalytics(response)} :
           pool' = IF outcome.ok
                   THEN [pool EXCEPT !.pc = "copePrice", !.pending = undefined,
                                     !.indexer = Some(response),
                                     !.uniswapAnalytics = Some(outcome.value),
                                     !.calls = Append(@, "fetchUsdcCopePrice")]
                   ELSE RejectPool([pool EXCEPT !.pending = undefined,
                                                !.indexer = Some(response)],
                                   outcome.error)
    /\ UNCHANGED <<config, balances, wallet, status, sends, during, check, calldata>>

\* The price API's response about COPE arrives: fetch settles (line 264).
\* When fetch rejects or the response is not ok the invocation ends (lines
\* 265-267, 290-293, 423-428); otherwise the body is awaited (line 269).
CopePriceResponds(response) ==
    /\ pool.pc = "copePrice"
    /\ pool' = IF response.kind = "json"
               THEN [pool EXCEPT !.pc = "copePriceBody", !.pending = Some(response)]
               ELSE RejectPool(pool, fetchUsdcCopePrice(response).error)
    /\ UNCHANGED <<config, balances, wallet, status, sends, during, check, calldata>>

\* The body of the response about COPE is delivered, or its read fails
\* (lines 269-293, then 364-368 or 423-428).
CopePriceBodyArrives(delivered) ==
    /\ pool.pc = "copePriceBody"
    /\ \E outcome \in {fetchUsdcCopePrice(IF delivered THEN pool.pending[1]
                                           ELSE BodyFailed)} :
           pool' = IF outcome.ok
                   THEN [pool EXCEPT !.pc = "ethPrice", !.pending = undefined,
                                     !.usdcCopePrice = Some(outcome.value),
                                     !.calls = Append(@, "fetchEthUsdcPrice")]
                   ELSE RejectPool([pool EXCEPT !.pending = undefined], outcome.error)
    /\ UNCHANGED <<config, balances, wallet, status, sends, during, check, calldata>>

\* The price API's response about ETH arrives: fetch settles (line 126).
\* When fetch rejects the invocation ends (lines 129-132, 423-428);
\* otherwise the body is awaited (line 127).
EthPriceResponds(response) ==
    /\ pool.pc = "ethPrice"
    /\ pool' = IF response.kind = "failed"
               THEN RejectPool(pool, fetchEthUsdcPrice(response).error)
               ELSE [pool EXCEPT !.pc = "ethPriceBody", !.pending = Some(response)]
    /\ UNCHANGED <<config, balances, wallet, status, sends, during, check, calldata>>

\* The body of the response about ETH is delivered, or its read fails
\* (lines 127-132, then 368-375, 389-421 or 423-428).
EthPriceBodyArrives(delivered) ==
    /\ pool.pc = "ethPriceBody"
    /\ \E p \in {AfterEthPrice([pool EXCEPT !.pending = undefined],
                                fetchEthUsdcPrice(IF delivered THEN pool.pending[1]
                                                  ELSE BodyFailed))} :
           /\ pool' = p
           /\ balances' = IF p.pc = "balances"
                          THEN StartBalances("fetchPoolData", p.walletAddress)
                          ELSE balances
    /\ UNCHANGED <<config, wallet, status, sends, during, check, calldata>>

\* fetchUserBalances(walletAddress) called on its own, up to its first
\* await (lines 299-304).
FetchUserBalancesStart(walletAddress) ==
    /\ pool.pc \in {"idle", "resolved", "rejected"}
    /\ balances.pc \in {"idle", "resolved", "rejected"}
    /\ balances' = StartBalances("caller", walletAddress)
    /\ UNCHANGED <<config, pool, wallet, status, sends, during, check, calldata>>

\* fetchUserBalances moves to b; when it settles and fetchPoolData awaits
\* it, fetchPoolData runs on to its end.  The object fetchPoolData resolves
\* with as userBalance is the one fetchUserBalances returned, so that the
\* totalUsd assigned at line 382 is in both.
BalancesMove(b) ==
    /\ pool' = IF b.caller = "fetchPoolData" THEN AfterBalances(pool, b) ELSE pool
    /\ balances' = IF b.caller = "fetchPoolData" /\ b.pc = "resolved"
                   THEN [b EXCEPT !.result = pool'.result[1].userBalance]
                   ELSE b
    /\ UNCHANGED <<config, wallet, status, sends, during, check, calldata>>

\* getBalance settles (lines 302-309 or 345-348).
EthBalanceResponds(response) ==
    /\ balances.pc = "eth"
    /\ \E b \in {AfterEthRead(balances, response, config)} : BalancesMove(b)

\* The USDC balanceOf settles (lines 316-325).
UsdcBalanceResponds(response) ==
    /\ balances.pc = "usdc"
    /\ \E b \in {AfterUsdcRead(balances, response, config)} : BalancesMove(b)

\* The COPE balanceOf settles (lines 332-344).
CopeBalanceResponds(response) ==
    /\ balances.pc = "cope"
    /\ \E b \in {AfterCopeRead(balances, response)} : BalancesMove(b)

NextPool ==
    \/ \E walletAddress \in {"", WalletAddress} : FetchPoolDataStart(walletAddress)
    \/ \E response \in AnalyticsResponses : AnalyticsResponds(response)
    \/ \E delivered \in BOOLEAN : AnalyticsBodyArrives(delivered)
    \/ \E response \in CopePriceResponses : CopePriceResponds(response)
    \/ \E delivered \in BOOLEAN : CopePriceBodyArrives(delivered)
    \/ \E response \in EthPriceResponses : EthPriceResponds(response)
    \/ \E delivered \in BOOLEAN : EthPriceBodyArrives(delivered)
    \/ FetchUserBalancesStart(WalletAddress)
    \/ \E response \in EthBalanceResponses : EthBalanceResponds(response)
    \/ \E response \in UsdcBalanceResponses : UsdcBalanceResponds(response)
    \/ \E response \in CopeBalanceResponses : CopeBalanceResponds(response)

SpecPool == InitPool /\ [][NextPool]_vars

(***************************************************************************)
(* Properties of sendSponsoredTransaction, checked under Spec.              *)
(***************************************************************************)

\* C1: a native-asset transfer whose first submission fails with a
\* sponsorship-related error makes exactly one further submission, with
\* gasLimit 21000 and marked unsponsored; when it completes the status holds
\* the retry's own hash (retry succeeded) or the retry's own error message
\* (retry failed), not the message of the first failure.
C1_NativeRetryReportsRetry ==
    \A s \in Sends :
        LET send  == sends[s]
            first == send.firstError[1]
            retry == send.retryError[1]
            retryMessage == IF retry.kind = "Error" THEN retry.v
                            ELSE "Fallback transaction failed"
            alone == \A t \in Sends \ {s} : sends[t].pc = "idle"
        IN  (/\ send.params.tokenAddress = ""
             /\ Len(send.subs) >= 1
             /\ send.firstError # undefined
             /\ first.kind = "Error"
             /\ \/ includes(first.v, "sponsorship")
                \/ includes(first.v, "paymaster")
                \/ includes(first.v, "gas too low"))
            => /\ send.pc \in {"retry", "resolved", "rejected"}
               /\ Len(send.subs) = 2
               /\ send.subs[2].gasLimit = Some(21000)
               /\ send.pc = "retry" /\ alone => ~status.isSponsored
               /\ send.pc = "resolved" =>
                     /\ send.atEnd[1].transactionHash = Some(HashOf(s, 2))
                     /\ ~send.atEnd[1].isLoading
                     /\ alone => /\ send.atEnd[1].error = undefined
                                 /\ ~send.atEnd[1].isSponsored
               /\ send.pc = "rejected" =>
                     /\ send.retryError # undefined
                     /\ send.atEnd[1].error = Some(retryMessage)
                     /\ ~send.atEnd[1].isLoading
                     /\ retryMessage # first.v => send.atEnd[1].error # Some(first.v)
                     /\ alone => ~send.atEnd[1].isSponsored

\* A native transfer failed with a paymaster error, was retried, the retry
\* failed with another message, and the status shows the retry's message.
C1_Witness ==
    \E s \in Sends :
        /\ sends[s].params = NativeParams
        /\ sends[s].pc = "rejected"
        /\ sends[s].firstError = Some(JsError("paymaster rejected the user operation"))
        /\ sends[s].retryError = Some(JsError("User rejected the request"))
        /\ Len(sends[s].subs) = 2
        /\ status.error = Some("User rejected the request")

\* C2: whenever a send turns status.isLoading from true to false, exactly
\* one of status.transactionHash and status.error is set.  (A step to the
\* initial status is reset's, and is left out.)
C2_ExactlyOneTerminalField ==
    [][(status.isLoading /\ ~status'.isLoading /\ status' # InitialStatus)
          => ((status'.transactionHash # undefined) # (status'.error # undefined))]_vars

\* C3: a first submission that fails with an error whose message has none of
\* "sponsorship", "paymaster", "gas too low" (a thrown value that is not an
\* Error has the message "Unknown error occurred") is not retried:
\* status.error is that message, isLoading is false, and the call rejects
\* with the original error.
C3_OtherErrorsAreFatal ==
    \A s \in Sends :
        LET send    == sends[s]
            first   == send.firstError[1]
            message == IF first.kind = "Error" THEN first.v ELSE "Unknown error occurred"
        IN  (/\ Len(send.subs) >= 1
             /\ send.firstError # undefined
             /\ ~includes(message, "sponsorship")
             /\ ~includes(message, "paymaster")
             /\ ~includes(message, "gas too low"))
            => /\ send.pc = "rejected"
               /\ Len(send.subs) = 1
               /\ send.atEnd[1].error = Some(message)
               /\ ~send.atEnd[1].isLoading
               /\ send.rejection = Some(first)

\* A first submission rejected with a string that is not an Error: no
\* retry, although the string mentions sponsorship.
C3_Witness ==
    \E s \in Sends :
        /\ sends[s].pc = "rejected"
        /\ sends[s].firstError =
               Some([kind |-> "thrown", v |-> "sponsorship service unavailable"])
        /\ Len(sends[s].subs) = 1
        /\ sends[s].rejection = sends[s].firstError
        /\ status.error = Some("Unknown error occurred")
        /\ ~status.isLoading

\* C7: a call of sendSponsoredTransaction made while no wallet with an
\* address is connected rejects with the "No smart wallet connected" error,
\* submits nothing and leaves the status as it was.
C7_NoWalletNoEffect ==
    [][\A s \in Sends :
          (~wallet /\ sends[s].pc = "idle" /\ sends'[s].pc # "idle")
          => /\ sends'[s].pc = "rejected"
             /\ sends'[s].rejection = Some(JsError("No smart wallet connected"))
             /\ sends'[s].subs = <<>>
             /\ status' = status]_vars

\* A call without a wallet was rejected while the status still shows the
\* hash of an earlier send.
C7_Witness ==
    \E s \in Sends :
        /\ sends[s].pc = "rejected"
        /\ sends[s].rejection = Some(JsError("No smart wallet connected"))
        /\ sends[s].subs = <<>>
        /\ sends[s].atEnd = Some(status)
        /\ status.transactionHash # undefined
        /\ ~wallet

\* C8: after a sponsorship-related failure of the first submission the
\* retry has the destination and the call data or value of the first
\* submission and adds only gasLimit (100000 with a token address, 21000
\* without); if the retry fails, status.error is the retry's message,
\* isLoading is false and the call rejects.
C8_RetrySameTransactionWithGasLimit ==
    \A s \in Sends :
        LET send  == sends[s]
            first == send.firstError[1]
            retry == send.retryError[1]
            retryMessage == IF retry.kind = "Error" THEN retry.v
                            ELSE "Fallback transaction failed"
        IN  /\ (/\ Len(send.subs) >= 1
                /\ send.firstError # undefined
                /\ first.kind = "Error"
                /\ \/ includes(first.v, "sponsorship")
                   \/ includes(first.v, "paymaster")
                   \/ includes(first.v, "gas too low"))
               => /\ Len(send.subs) = 2
                  /\ send.subs[2].to = send.subs[1].to
                  /\ send.subs[2].data = send.subs[1].data
                  /\ send.subs[2].value = send.subs[1].value
                  /\ send.subs[1].gasLimit = undefined
                  /\ send.subs[2].gasLimit =
                         Some(IF send.params.tokenAddress # "" THEN 100000 ELSE 21000)
            /\ send.retryError # undefined
               => /\ send.pc = "rejected"
                  /\ send.rejection # undefined
                  /\ send.atEnd[1].error = Some(retryMessage)
                  /\ ~send.atEnd[1].isLoading

\* A token transfer was retried with gasLimit 100000 and the retry failed.
C8_Witness ==
    \E s \in Sends :
        /\ sends[s].params = TokenParams
        /\ sends[s].pc = "rejected"
        /\ Len(sends[s].subs) = 2
        /\ sends[s].subs[2].gasLimit = Some(100000)
        /\ sends[s].subs[2].data = sends[s].subs[1].data
        /\ sends[s].firstError = Some(JsError("gas too low"))
        /\ sends[s].retryError =
               Some([kind |-> "thrown", v |-> "sponsorship service unavailable"])
        /\ status.error = Some("Fallback transaction failed")

\* C9: overlapping invocations do not race on the status: the completion of
\* one send never leaves isLoading false while a submission of another send
\* is still pending.
C9_NoRaceOnStatus ==
    [][\A s, t \in Sends :
          (/\ s # t
           /\ sends[s].pc \in {"first", "retry"}
           /\ sends'[s].pc \in {"resolved", "rejected"}
           /\ sends'[t].pc \in {"first", "retry"})
          => status'.isLoading]_vars

(***************************************************************************)
(* Properties of checkSponsorship, checked under SpecCheck.                *)
(***************************************************************************)

\* C4 as claimed: checkSponsorship never throws.
C4_NeverThrows == check.pc # "rejected"

\* C4: checkSponsorship throws only when it is called with no wallet
\* connected, and then before any eligibility check is made; called with a
\* wallet it makes the eligibility check and returns a boolean for every
\* outcome of it, false whenever the check failed.
C4_ThrowsOnlyWithoutWallet ==
    [][/\ (check.pc # "pending" /\ check' # check)
          => IF wallet
             THEN check'.pc = "pending" /\ check'.args # undefined
                  /\ check'.rejection = undefined
             ELSE check'.pc = "rejected" /\ check'.args = undefined
                  /\ check'.result = undefined
                  /\ check'.rejection = Some(JsError("No smart wallet connected"))
       /\ (check.pc = "pending" /\ check' # check)
          => /\ check'.pc = "returned"
             /\ check'.rejection = undefined
             /\ check'.result \in {Some(TRUE), Some(FALSE)}
             /\ check'.caught # undefined => check'.result = Some(FALSE)]_vars

\* The eligibility check failed and checkSponsorship returned false.
C4_Witness ==
    /\ check.pc = "returned"
    /\ check.caught = Some(JsError("paymaster rejected the user operation"))
    /\ check.result = Some(FALSE)
    /\ check.rejection = undefined

(***************************************************************************)
(* Properties of buildTransferCallData, checked under SpecCallData.        *)
(***************************************************************************)

\* C10: for every recipient, amount and decimals buildTransferCallData
\* returns the selector followed by exactly 64 hex digits of recipient and
\* exactly 64 hex digits of scaled amount: 138 characters in all.
C10_FixedLengthCallData ==
    calldata.pc = "done"
    => /\ calldata.result[1].ok
       /\ Len(calldata.result[1].data) = 10 + 64 + 64
       /\ SubSeq(calldata.result[1].data, 1, 10) = "0xa9059cbb"

(***************************************************************************)
(* Properties of pool-data.ts, checked under SpecPool.                     *)
(***************************************************************************)

\* C5: when the indexer step of fetchPoolData fails by an HTTP error, by a
\* GraphQL errors member or by a missing pool, fetchPoolData rejects with
\* no result object, and has made no price call and no balance call,
\* whether or not a wallet address was supplied.
C5_IndexerFailureAborts ==
    (/\ pool.indexer # undefined
     /\ \/ pool.indexer[1].kind = "http"
        \/ /\ pool.indexer[1].kind = "json"
           /\ \/ pool.indexer[1].errors # undefined
              \/ pool.indexer[1].data = undefined
              \/ pool.indexer[1].data[1].pool = undefined)
    => /\ pool.pc = "rejected"
       /\ pool.result = undefined
       /\ pool.rejection # undefined
       /\ pool.uniswapAnalytics = undefined
       /\ pool.usdcCopePrice = undefined
       /\ pool.ethUsdcPrice = undefined
       /\ pool.calls = <<"fetchUniswapPoolAnalytics">>
       /\ balances.caller # "fetchPoolData"

\* fetchPoolData was given a wallet address, the indexer answered with
\* status 500, and the invocation has rejected.
C5_Witness ==
    /\ pool.pc = "rejected"
    /\ pool.walletAddress = WalletAddress
    /\ pool.indexer = Some([kind |-> "http", status |-> 500,
                            body |-> "Internal Server Error"])
    /\ pool.rejection = Some([kind |-> "Error",
           v |-> "Failed to fetch real pool data: HTTP error! status: 500, body: Internal Server Error"])
    /\ pool.calls = <<"fetchUniswapPoolAnalytics">>

\* C6: in fetchUserBalances each of the three reads (ETH, USDC, COPE) is
\* fault-tolerant on its own: a read that fails yields 0 for its asset
\* only, the other assets keep the values read, and a UserBalance is still
\* returned.
C6_EveryReadIsFaultTolerant ==
    balances.pc \in {"resolved", "rejected"} =>
        /\ balances.pc = "resolved"
        /\ balances.result # undefined
        /\ \A i \in 1..Len(balances.reads) :
               LET asset    == CASE balances.calls[i] = "getBalance" -> "eth"
                                 [] balances.calls[i] = "usdc.balanceOf" -> "usdc"
                                 [] balances.calls[i] = "cope.balanceOf" -> "cope"
                   decimals == IF asset = "usdc" THEN 6 ELSE 18
               IN  balances.result[1][asset] =
                       IF balances.reads[i].kind = "failed" THEN Zero
                       ELSE AmountOf(balances.reads[i].value, decimals)

\* C6, as the code has it: the two token reads (USDC, COPE) are
\* fault-tolerant on their own: a token read that fails yields 0 for its
\* asset only, the other assets keep the values read, a token that is not
\* configured is 0, and a UserBalance is returned; a failure of the ETH
\* read makes fetchUserBalances reject with 'Unable to fetch real user
\* balances. Please check wallet connection.' before any token is read.
C6_TokenReadsAreFaultTolerant ==
    balances.pc \in {"resolved", "rejected"} =>
        IF balances.reads[1].kind = "failed"
        THEN /\ balances.pc = "rejected"
             /\ balances.result = undefined
             /\ balances.calls = <<"getBalance">>
             /\ balances.rejection = Some([kind |-> "Error",
                    v |-> "Unable to fetch real user balances. Please check wallet connection."])
        ELSE /\ balances.pc = "resolved"
             /\ balances.rejection = undefined
             /\ balances.result # undefined
             /\ balances.caller = "caller" => balances.result[1].totalUsd = Zero
             /\ Len(balances.reads) = Len(balances.calls)
             /\ \A i \in 1..Len(balances.reads) :
                    LET asset    == CASE balances.calls[i] = "getBalance" -> "eth"
                                      [] balances.calls[i] = "usdc.balanceOf" -> "usdc"
                                      [] balances.calls[i] = "cope.balanceOf" -> "cope"
                        decimals == IF asset = "usdc" THEN 6 ELSE 18
                    IN  balances.result[1][asset] =
                            IF balances.reads[i].kind = "failed" THEN Zero
                            ELSE AmountOf(balances.reads[i].value, decimals)
             /\ \A i \in 1..Len(balances.calls), j \in 1..Len(balances.calls) :
                    i # j => balances.calls[i] # balances.calls[j]
             /\ (\A i \in 1..Len(balances.calls) : balances.calls[i] # "usdc.balanceOf")
                    => balances.result[1].usdc = Zero
             /\ (\A i \in 1..Len(balances.calls) : balances.calls[i] # "cope.balanceOf")
                    => balances.result[1].cope = Zero

\* The ETH read gave 1 ETH, the USDC read failed, the COPE read gave 50
\* COPE, and fetchUserBalances returned {eth: 1, usdc: 0, cope: 50}.
C6_Witness ==
    /\ balances.pc = "resolved"
    /\ Len(balances.reads) = 3
    /\ balances.reads[1].kind = "value"
    /\ balances.reads[2].kind = "failed"
    /\ balances.reads[3].kind = "value"
    /\ balances.calls = <<"getBalance", "usdc.balanceOf", "cope.balanceOf">>
    /\ balances.result =
           Some([eth      |-> [nan |-> FALSE, neg |-> FALSE, m |-> <<1>>, e |-> 0],
                 usdc     |-> [nan |-> FALSE, neg |-> FALSE, m |-> <<>>, e |-> 0],
                 cope     |-> [nan |-> FALSE, neg |-> FALSE, m |-> <<25>>, e |-> 1],
                 totalUsd |-> [nan |-> FALSE, neg |-> FALSE, m |-> <<>>, e |-> 0]])

\* C11: the APR in the result of fetchPoolData is (fees24h * 365 / tvlUSD)
\* * 100 when fees24h and tvlUSD are both there and tvlUSD > 0, and is 0
\* in every other case (tvlUSD 0, fees24h 0, either one missing or no
\* number); nothing is divided by zero (in the model x / 0 is NaN).  Fees
\* of 100 on 1000 locked give 3650, fees of 100 on 0 locked give 0.
C11_AprFromFeesAndTvl ==
    pool.pc = "resolved" =>
        LET fees24h == pool.uniswapAnalytics[1].fees24h
            tvlUSD  == pool.uniswapAnalytics[1].tvlUSD
            given   == pool.result[1].poolData.apr
            isZero(x)     == ~x.nan /\ x.m = <<>>
            isPositive(x) == ~x.nan /\ x.m # <<>> /\ ~x.neg
            number(n)     == [nan |-> FALSE, neg |-> FALSE, m |-> <<n>>, e |-> 0]
        IN  /\ ~given.nan
            /\ IF ~fees24h.nan /\ ~isZero(fees24h) /\ isPositive(tvlUSD)
               THEN given = DoubleMul(DoubleDiv(DoubleMul(fees24h, number(365)), tvlUSD),
                                      number(100))
               ELSE isZero(given) /\ ~given.neg
            /\ (fees24h = [number(25) EXCEPT !.e = 2]
                    /\ tvlUSD = [number(125) EXCEPT !.e = 3])
               => given = [number(1825) EXCEPT !.e = 1]
            /\ (fees24h = [number(25) EXCEPT !.e = 2] /\ isZero(tvlUSD))
               => isZero(given)

\* fetchPoolData resolved for a pool with fees of 100 on 1000 locked, and
\* the APR of its result is 3650 = 1825 * 2.
C11_Witness ==
    /\ pool.pc = "resolved"
    /\ pool.uniswapAnalytics[1].fees24h = [nan |-> FALSE, neg |-> FALSE, m |-> <<25>>, e |-> 2]
    /\ pool.uniswapAnalytics[1].tvlUSD = [nan |-> FALSE, neg |-> FALSE, m |-> <<125>>, e |-> 3]
    /\ pool.result[1].poolData.apr = [nan |-> FALSE, neg |-> FALSE, m |-> <<1825>>, e |-> 1]

\* C12: when fetchPoolData returns a userBalance, its totalUsd is
\* eth * ethUsdcPrice + usdc + cope * usdcCopePrice, of the balances
\* fetchUserBalances returned to this invocation and of the prices this
\* invocation fetched (an ETH price the response did not hold is undefined,
\* and the total is then NaN).  Balances of 1 ETH, 100 USDC and 50 COPE
\* with an ETH price of 2000 and a USDC/COPE price of 5 give 2350.
C12_TotalUsdFromBalancesAndPrices ==
    (pool.pc = "resolved" /\ pool.result[1].userBalance # undefined) =>
        LET userBalance   == pool.result[1].userBalance[1]
            usdcCopePrice == pool.result[1].poolData.usdcCopePrice
            ethUsdcPrice  == IF pool.result[1].poolData.ethUsdcPrice = undefined
                             THEN [nan |-> TRUE, neg |-> FALSE, m |-> <<>>, e |-> 0]
                             ELSE pool.result[1].poolData.ethUsdcPrice[1]
            number(n, e)  == [nan |-> FALSE, neg |-> FALSE, m |-> <<n>>, e |-> e]
        IN  /\ pool.calls = <<"fetchUniswapPoolAnalytics", "fetchUsdcCopePrice",
                              "fetchEthUsdcPrice", "fetchUserBalances">>
            /\ pool.usdcCopePrice = Some(usdcCopePrice)
            /\ pool.ethUsdcPrice = pool.result[1].poolData.ethUsdcPrice
            /\ balances.caller = "fetchPoolData"
               => /\ balances.pc = "resolved"
                  /\ userBalance.eth = balances.result[1].eth
                  /\ userBalance.usdc = balances.result[1].usdc
                  /\ userBalance.cope = balances.result[1].cope
            /\ userBalance.totalUsd =
                   DoubleAdd(DoubleAdd(DoubleMul(userBalance.eth, ethUsdcPrice),
                                       userBalance.usdc),
                             DoubleMul(userBalance.cope, usdcCopePrice))
            /\ (/\ userBalance.eth = number(1, 0)
                /\ userBalance.usdc = number(25, 2)
                /\ userBalance.cope = number(25, 1)
                /\ ethUsdcPrice = number(125, 4)
                /\ usdcCopePrice = number(5, 0))
               => userBalance.totalUsd = number(1175, 1)

\* fetchPoolData resolved with balances of 1 ETH, 100 USDC and 50 COPE at
\* an ETH price of 2000 and a USDC/COPE price of 5, and the total is
\* 2350 = 1175 * 2.
C12_Witness ==
    /\ pool.pc = "resolved"
    /\ pool.result[1].userBalance =
           Some([eth      |-> [nan |-> FALSE, neg |-> FALSE, m |-> <<1>>, e |-> 0],
                 usdc     |-> [nan |-> FALSE, neg |-> FALSE, m |-> <<25>>, e |-> 2],
                 cope     |-> [nan |-> FALSE, neg |-> FALSE, m |-> <<25>>, e |-> 1],
                 totalUsd |-> [nan |-> FALSE, neg |-> FALSE, m |-> <<1175>>, e |-> 1]])
    /\ pool.result[1].poolData.ethUsdcPrice =
           Some([nan |-> FALSE, neg |-> FALSE, m |-> <<125>>, e |-> 4])
    /\ pool.result[1].poolData.usdcCopePrice =
           [nan |-> FALSE, neg |-> FALSE, m |-> <<5>>, e |-> 0]

\* C14: fetchPoolData makes its external calls in the order indexer, COPE
\* price, ETH price, balances, each one only after the one before gave its
\* value; when a price fetch fails the invocation rejects and has made no
\* balance call; and a totalUsd is computed only when both prices and the
\* balances are there.
C14_OrderedCallsPricesBeforeTotal ==
    LET order == <<"fetchUniswapPoolAnalytics", "fetchUsdcCopePrice",
                   "fetchEthUsdcPrice", "fetchUserBalances">>
        n     == Len(pool.calls)
    IN  /\ n <= 4
        /\ pool.calls = SubSeq(order, 1, n)
        /\ n >= 2 => pool.uniswapAnalytics # undefined
        /\ n >= 3 => pool.usdcCopePrice # undefined
        /\ n >= 4 => pool.ethUsdcPrice # undefined
        /\ (pool.pc = "rejected" /\ n >= 2)
           => /\ n < 4
              /\ balances.caller # "fetchPoolData"
              /\ pool.result = undefined
        /\ (pool.pc = "resolved" /\ pool.result[1].userBalance # undefined)
           => /\ n = 4
              /\ pool.usdcCopePrice # undefined
              /\ pool.ethUsdcPrice # undefined

\* C15: a failure of the balance step never makes fetchPoolData reject.
\* Once the indexer and both price fetches have returned and a wallet
\* address was supplied (so that fetchUserBalances was called),
\* fetchPoolData resolves whatever the balance reads do, with a poolData
\* that holds every member (the numbers of the indexer, the APR, both
\* tokens, and the two prices: both Numbers when both fetches gave a
\* price), and with userBalance undefined exactly when fetchUserBalances
\* threw, which it does when the ETH read fails.
C15_BalanceFailureNeverRejects ==
    Len(pool.calls) = 4 =>
        /\ pool.walletAddress # ""
        /\ pool.rejection = undefined
        /\ pool.pc \in {"balances", "resolved"}
        /\ pool.pc = "balances"
           => /\ balances.caller = "fetchPoolData"
              /\ balances.pc \in {"eth", "usdc", "cope"}
        /\ pool.pc = "resolved"
           => LET given == pool.result[1].poolData
              IN  /\ DOMAIN given = {"usdcCopePrice", "ethUsdcPrice", "totalLiquidity",
                                     "volume24h", "fees24h", "apr", "tvlUSD", "volumeUSD",
                                     "feesUSD", "token0", "token1"}
                  /\ \A member \in {"totalLiquidity", "volume24h", "fees24h", "apr",
                                     "tvlUSD", "volumeUSD", "feesUSD", "usdcCopePrice"} :
                         ~given[member].nan
                  /\ given.usdcCopePrice = pool.usdcCopePrice[1]
                  /\ given.ethUsdcPrice = pool.ethUsdcPrice
                  /\ pool.ethUsdcPrice # undefined => ~given.ethUsdcPrice[1].nan
                  /\ given.token0.symbol # "" /\ given.token1.symbol # ""
                  /\ balances.caller = "fetchPoolData"
                     => /\ balances.pc \in {"resolved", "rejected"}
                        /\ (pool.result[1].userBalance = undefined)
                               <=> (balances.pc = "rejected")
                        /\ (balances.pc = "rejected")
                               <=> (balances.reads[1].kind = "failed")

\* The ETH read failed, fetchUserBalances threw, and fetchPoolData resolved
\* with the pool's data (an APR of 3650) and no userBalance.
C15_Witness ==
    /\ pool.pc = "resolved"
    /\ Len(pool.calls) = 4
    /\ balances.caller = "fetchPoolData"
    /\ balances.pc = "rejected"
    /\ balances.reads = <<[kind |-> "failed", message |-> "RPC request failed"]>>
    /\ pool.result[1].userBalance = undefined
    /\ pool.result[1].poolData.ethUsdcPrice # undefined
    /\ pool.result[1].poolData.apr = [nan |-> FALSE, neg |-> FALSE, m |-> <<1825>>, e |-> 1]

(***************************************************************************)
(* Further properties of sendSponsoredTransaction and of reset.            *)
(***************************************************************************)

\* C13: every invocation of sendSponsoredTransaction made with a wallet
\* connected makes at least one and at most two submissions, the second
\* only after the first failed with a sponsorship-related error (and, each
\* submission settling, the invocation finishes with isLoading false).  The
\* formula is the bound on the submissions, at every point of an
\* invocation that passed the wallet guard.
C13_OneOrTwoSubmissions ==
    \A s \in Sends :
        LET send  == sends[s]
            first == send.firstError[1]
        IN  (/\ send.pc # "idle"
             /\ send.rejection # Some(JsError("No smart wallet connected")))
            => /\ Len(send.subs) \in {1, 2}
               /\ Len(send.subs) = 2
                  => /\ send.firstError # undefined
                     /\ first.kind = "Error"
                     /\ \/ includes(first.v, "sponsorship")
                        \/ includes(first.v, "paymaster")
                        \/ includes(first.v, "gas too low")
               /\ send.pc \in {"resolved", "rejected"} => ~send.atEnd[1].isLoading

\* C18: reset can be called in every reachable state and puts the status
\* back to the initial value (isLoading false, isSponsored false, no
\* transactionHash, no error) without making a submission; it does not
\* cancel a send in flight: the send stays where it was, and when its
\* submission settles later it still writes its hash or its error into the
\* status, whatever the status then is.
C18_ResetRestoresAndCancelsNothing ==
    /\ [](ENABLED (Reset /\ status' = InitialStatus))
    /\ [][Reset => /\ status' = [isLoading |-> FALSE, isSponsored |-> FALSE,
                                  transactionHash |-> undefined, error |-> undefined]
                   /\ sends' = sends]_vars
    /\ [][\A s \in Sends :
              sends[s].pc \in {"first", "retry"}
              => /\ sends'[s].pc = "resolved"
                    => /\ status'.transactionHash = Some(HashOf(s, Len(sends[s].subs)))
                       /\ ~status'.isLoading
                 /\ sends'[s].pc = "rejected"
                    => /\ status'.error # undefined
                       /\ ~status'.isLoading
                       /\ sends'[s].rejection # undefined]_vars

\* Only one send was ever made, reset was called while its first
\* submission was pending, and the submission then resolved: the status is
\* the initial one but for the hash the send wrote (isSponsored is false
\* although the sponsored submission succeeded).
C18_Witness ==
    /\ sends[1].pc = "resolved"
    /\ Len(sends[1].subs) = 1
    /\ \A s \in Sends \ {1} : sends[s].pc = "idle"
    /\ status = [isLoading |-> FALSE, isSponsored |-> FALSE,
                 transactionHash |-> Some(HashOf(1, 1)), error |-> undefined]

(***************************************************************************)
(* Properties of a send that no other send overlapped, checked under Spec. *)
(* The hook guards neither reset nor a second send, so both are called     *)
(* while a send awaits a submission.  A send ran without overlap exactly   *)
(* when no send was awaiting a submission as it started and none started   *)
(* before it completed: `during.send` names it from its start until the    *)
(* next send passes the wallet guard, so every such send is covered in the *)
(* state its completion leaves.                                            *)
(* A send rejected at the wallet guard writes nothing and overlaps nothing.*)
(***************************************************************************)

\* C16 as claimed: when a send that passed the wallet guard and ran without
\* overlap completes, status.isSponsored is true if and only if the
\* fallback path was not entered.
C16_SponsoredIffNoFallback ==
    \A s \in Sends :
        LET send  == sends[s]
            first == send.firstError[1]
            fallbackEntered ==
                /\ send.firstError # undefined
                /\ first.kind = "Error"
                /\ \/ includes(first.v, "sponsorship")
                   \/ includes(first.v, "paymaster")
                   \/ includes(first.v, "gas too low")
        IN  (/\ send.pc \in {"resolved", "rejected"}
             /\ during.send = s)
            => (send.atEnd[1].isSponsored <=> ~fallbackEntered)

\* C16: when a send that passed the wallet guard and ran without overlap
\* completes, status.isSponsored is true if and only if the fallback path
\* was not entered and reset was not called while the send awaited a
\* submission: true when the first submission succeeded and when the first
\* attempt failed with an error that is not sponsorship-related, unless
\* reset was called meanwhile; false whenever the unsponsored retry was
\* attempted, whether it succeeded or failed; false after a reset during
\* the send, whatever its outcome.
C16_SponsoredIffNoFallbackNoReset ==
    \A s \in Sends :
        LET send  == sends[s]
            first == send.firstError[1]
            fallbackEntered ==
                /\ send.firstError # undefined
                /\ first.kind = "Error"
                /\ \/ includes(first.v, "sponsorship")
                   \/ includes(first.v, "paymaster")
                   \/ includes(first.v, "gas too low")
            resetDuring == during.reset
        IN  (/\ send.pc \in {"resolved", "rejected"}
             /\ during.send = s)
            => /\ send.atEnd[1].isSponsored <=> (~fallbackEntered /\ ~resetDuring)
               /\ (send.pc = "resolved" /\ Len(send.subs) = 1 /\ ~resetDuring)
                  => send.atEnd[1].isSponsored
               /\ (send.firstError # undefined /\ ~fallbackEntered)
                  => /\ send.pc = "rejected"
                     /\ ~resetDuring => send.atEnd[1].isSponsored
               /\ fallbackEntered <=> Len(send.subs) = 2
               /\ Len(send.subs) = 2 => ~send.atEnd[1].isSponsored
               /\ resetDuring => ~send.atEnd[1].isSponsored

\* The first send failed with an error that is not sponsorship-related and
\* left isSponsored true.  The second started after it (no send was
\* awaiting a submission); reset was called while the second awaited its
\* first submission, the submission succeeded, and isSponsored is false
\* although the fallback path was not entered.
C16_Witness ==
    /\ sends[1].pc = "rejected"
    /\ sends[1].firstError = Some(JsError("User rejected the request"))
    /\ Len(sends[1].subs) = 1
    /\ sends[1].atEnd[1].isSponsored
    /\ sends[2].pc = "resolved"
    /\ sends[2].firstError = undefined
    /\ Len(sends[2].subs) = 1
    /\ during = [send |-> 2, reset |-> TRUE]
    /\ ~sends[2].atEnd[1].isSponsored
    /\ status = sends[2].atEnd[1]

\* C17: for a send that ran without overlap and with a wallet connected, the
\* outcome of the promise agrees with the status, whether or not reset was
\* called during the send: it resolves exactly when this send wrote
\* status.transactionHash (the hash of its first submission or of its
\* retry) and rejects exactly when this send wrote status.error; while it
\* is pending it has written neither.
C17_PromiseAgreesWithStatus ==
    \A s \in Sends :
        LET send  == sends[s]
            own   == {Some(HashOf(s, 1)), Some(HashOf(s, 2))}
            first == send.firstError[1]
            retry == send.retryError[1]
            message ==
                IF send.retryError # undefined
                THEN IF retry.kind = "Error" THEN retry.v ELSE "Fallback transaction failed"
                ELSE IF first.kind = "Error" THEN first.v ELSE "Unknown error occurred"
        IN  during.send = s
            => /\ send.pc \in {"first", "retry", "resolved", "rejected"}
               /\ send.rejection # Some(JsError("No smart wallet connected"))
               /\ send.pc \in {"first", "retry"}
                  => /\ status.transactionHash \notin own
                     /\ status.error = undefined
                     /\ send.rejection = undefined
               /\ send.pc = "resolved"
                  => /\ send.rejection = undefined
                     /\ send.atEnd[1].transactionHash = Some(HashOf(s, Len(send.subs)))
                     /\ send.atEnd[1].error = undefined
               /\ send.pc = "rejected"
                  => /\ send.rejection # undefined
                     /\ send.firstError # undefined
                     /\ send.atEnd[1].error = Some(message)
                     /\ send.atEnd[1].transactionHash \notin own

\* The first send was retried, the retry succeeded and wrote its hash.  The
\* second started after it; reset was called while the second awaited its
\* first submission, which then failed with an error that is not
\* sponsorship-related: the promise rejected with it and the send wrote
\* the error and no hash.
C17_Witness ==
    /\ sends[1].pc = "resolved"
    /\ sends[1].atEnd[1].transactionHash = Some(HashOf(1, 2))
    /\ sends[2].pc = "rejected"
    /\ during = [send |-> 2, reset |-> TRUE]
    /\ Len(sends[2].subs) = 1
    /\ sends[2].rejection = Some(JsError("User rejected the request"))
    /\ sends[2].atEnd[1].error = Some("User rejected the request")
    /\ sends[2].atEnd[1].transactionHash = undefined
    /\ status = sends[2].atEnd[1]

====
